---- MODULE Spec2Model ----
(***************************************************************************)
(* A model of the MCP transport and dispatch layer of deco-cx/mcp.         *)
(*                                                                         *)
(*   Spec        one server transport instance (HttpServerTransport or     *)
(*               StatelessServerTransport) driven by arbitrary callers     *)
(*   SpecFacade  the mcpServer middleware serving concurrent stateless     *)
(*               POSTs through per-request transports                      *)
(*   SpecTools   the tools/list and tools/call handlers with their name    *)
(*               cache over a changing schema source                       *)
(***************************************************************************)
EXTENDS Naturals, Integers, Sequences, FiniteSets, TLC

VARIABLES
    tr,         \* the transport instance under test (Spec)
    last,       \* the most recent call on tr: operation, request, response
    mcp,        \* facade: the shared McpServer (its connected transport)
    conn,       \* facade: per-request connection (transport, progress)
    reg,        \* tools: registry, schema source and call log
    sch,        \* schemas: a schema, its definitions and its dereferenced form
    mw,         \* middleware: a composed chain and the trace of one request
    pat,        \* tool filter: tools, patterns and the filtered list
    ws,         \* the WebSocket transport and its socket
    sse,        \* the SSE routes: session registry and its transports
    owed,       \* dispatcher: ids of the requests it has yet to answer
    cl          \* the client transport and the send call in progress

vars == <<tr, last, mcp, conn, reg, sch, mw, pat, ws, sse, owed, cl>>

\* what each specification leaves alone
TransportFrame == <<mcp, conn, reg, sch, mw, pat, ws, sse, owed, cl>>
FacadeFrame == <<tr, last, reg, sch, mw, pat, ws, sse, owed, cl>>
ToolsFrame == <<tr, last, mcp, conn, sch, mw, pat, ws, sse, owed, cl>>
SchemaFrame == <<tr, last, mcp, conn, reg, mw, pat, ws, sse, owed, cl>>
MiddlewareFrame == <<tr, last, mcp, conn, reg, sch, pat, ws, sse, owed, cl>>
FilterFrame == <<tr, last, mcp, conn, reg, sch, mw, ws, sse, owed, cl>>
SocketFrame == <<tr, last, mcp, conn, reg, sch, mw, pat, sse, owed, cl>>
RegistryFrame == <<tr, last, mcp, conn, reg, sch, mw, pat, ws, owed, cl>>
DispatchFrame == <<mcp, conn, reg, sch, mw, pat, ws, sse, cl>>
ClientFrame == <<tr, last, mcp, conn, reg, sch, mw, pat, ws, sse, owed>>

\* the parts a specification does not use
FacadeIdle == mcp = 0 /\ conn = 0
ToolsIdle == reg = 0
SchemaIdle == sch = 0
MiddlewareIdle == mw = 0
FilterIdle == pat = 0
SocketIdle == ws = 0
RegistryIdle == sse = 0
DispatchIdle == owed = {}
ClientIdle == cl = 0

(***************************************************************************)
(* Bounds of the model.                                                    *)
(***************************************************************************)
MaxBatch == 2       \* longest JSON array in a POST body
MaxCreated == 2     \* event streams and response promises of one transport
MaxEvents == 1      \* events enqueued on the streams of one transport
MaxCloses == 2      \* onclose and onerror notifications of one transport

(***************************************************************************)
(* Values.                                                                 *)
(***************************************************************************)
\* JavaScript's undefined for the optional numeric fields (stream handle,
\* resolver handle, session id); real handles and ids start at 1.
undefined == 0

\* JSON-RPC error codes used by the transport
ParseError == -32700
InvalidRequest == -32600
ServerError == -32000
SessionNotFound == -32001

\* A method name is the sequence of its "/"-separated segments:
\* "tools/call" is <<"tools", "call">>, "initialize" is <<"initialize">>.
MInitialize == <<"initialize">>
MPrefixedInitialize == <<"mcp", "initialize">>
MToolsCall == <<"tools", "call">>
MInitialized == <<"notifications", "initialized">>

Ids == 1..2

Request(id, method) == [kind |-> "request", id |-> id, method |-> method]
Notification(method) == [kind |-> "notification", id |-> 0, method |-> method]
Response(id) == [kind |-> "response", id |-> id, method |-> <<>>]
NoMsg == [kind |-> "none", id |-> 0, method |-> <<>>]
\* a JSON value that is not a JSON-RPC message
Invalid == [kind |-> "invalid", id |-> 0, method |-> <<>>]

ReqInitialize == Request(1, MInitialize)
ReqPrefixedInitialize == Request(1, MPrefixedInitialize)
ReqToolsCall == Request(2, MToolsCall)
NotifInitialized == Notification(MInitialized)

ValidElems ==
    { ReqInitialize, ReqPrefixedInitialize, ReqToolsCall, NotifInitialized }
Elems == ValidElems \cup {Invalid}
\* the elements batches are built from
BatchElems == { ReqPrefixedInitialize, ReqToolsCall, Invalid }

SendMsgs == { Response(i) : i \in Ids }

\* Request bodies: text that is not JSON, one JSON value, or a JSON array.
NotJson == [json |-> FALSE, array |-> FALSE, elems |-> <<>>]
Single(e) == [json |-> TRUE, array |-> FALSE, elems |-> <<e>>]
Array(s) == [json |-> TRUE, array |-> TRUE, elems |-> s]
SeqsUpTo(S, n) == UNION { [1..k -> S] : k \in 0..n }
Bodies ==
    {NotJson} \cup { Single(e) : e \in Elems }
              \cup { Array(s) : s \in SeqsUpTo(BatchElems, MaxBatch) }

AcceptHeaders ==
    { {"application/json"}, {"text/event-stream"}, {"text/html"} }
ContentTypes == { "application/json", "text/plain" }
SessionHeaders == 0..2      \* mcp-session-id header; 0 = absent

HttpRequest(method, accept, contentType, session, body) ==
    [ method |-> method, accept |-> accept, contentType |-> contentType,
      session |-> session, body |-> body ]

\* The requests the callers make: POSTs with proper headers and every body,
\* POSTs with every session header, POSTs with every header combination, and
\* the body-less methods.
HttpRequests ==
    { HttpRequest("POST", {"application/json"}, "application/json", 1, b) :
        b \in Bodies }
    \cup
    { HttpRequest("POST", {"application/json"}, "application/json", h, b) :
        h \in SessionHeaders,
        b \in {Single(ReqToolsCall), Single(ReqPrefixedInitialize)} }
    \cup
    { HttpRequest("POST", a, c, 0, b) :
        a \in AcceptHeaders, c \in ContentTypes,
        b \in {NotJson, Single(ReqToolsCall)} }
    \cup
    { HttpRequest(m, a, "", h, NotJson) :
        m \in {"GET", "DELETE"},
        a \in {{"application/json"}, {"text/html"}}, h \in SessionHeaders }
    \cup
    { HttpRequest("PUT", {"application/json"}, "", h, NotJson) :
        h \in SessionHeaders }

NoRequest ==
    [ method |-> "", accept |-> {}, contentType |-> "", session |-> 0,
      body |-> NotJson ]

\* An HTTP response. stream is the handle of the event stream that feeds the
\* body (undefined for a fixed body); body is the JSON-RPC message a JSON body
\* serialises; status 0 is a promise that has not resolved yet.
\* session is the mcp-session-id response header (undefined = not set).
HttpResponse(status, ctype, code, message, body, stream, session) ==
    [ status |-> status, ctype |-> ctype, code |-> code, message |-> message,
      body |-> body, stream |-> stream, session |-> session ]
Pending == HttpResponse(0, "", 0, "", NoMsg, undefined, undefined)
NoResponse == HttpResponse(0, "none", 0, "", NoMsg, undefined, undefined)

(***************************************************************************)
(* The transport object.  Besides the fields of the class it carries what  *)
(* the instance has produced: the event streams it created, the promises   *)
(* of its immediate-JSON exchanges, and the calls it made on its           *)
(* observers.                                                              *)
(***************************************************************************)
NewTransport(cls, generator, json) ==
    [ cls |-> cls,
      \* HttpServerTransport
      sessionIdGenerator |-> generator,     \* TRUE: the option is given
      enableJsonResponse |-> json,
      initialized |-> FALSE,
      sessionId |-> undefined,
      sseController |-> undefined,
      sseStreamActive |-> FALSE,
      responseResolver |-> undefined,
      \* StatelessServerTransport
      _controller |-> undefined,
      _responseResolver |-> undefined,
      \* produced by the instance
      streams |-> <<>>,         \* [state, events, by] per ReadableStream
                                \* created; by: the request method it answers
      exchanges |-> <<>>,       \* [pc, resp, first] per response promise
      \* the observers' view of the operation in progress
      delivered |-> <<>>,       \* messages passed to onmessage, in order
      sendLog |-> <<>>,         \* messages passed to send(), in order
      generated |-> 0,          \* calls of sessionIdGenerator
      oncloseCalls |-> 0,
      onerrorCalls |-> 0 ]

HttpServerTransport(generator, json) ==
    NewTransport("HttpServerTransport", generator, json)

StatelessServerTransport ==
    NewTransport("StatelessServerTransport", FALSE, FALSE)

\* What a handler hands back: the transport afterwards and the HTTP response
\* (Pending while the returned promise is unresolved).
Result(t, resp) == [t |-> t, resp |-> resp]

jsonRpcError(code, message, status) ==
    HttpResponse(status, "application/json", code, message, NoMsg,
                 undefined, undefined)

(***************************************************************************)
(* HttpServerTransport                                                     *)
(***************************************************************************)
send(t, message) ==
    LET t0 == [t EXCEPT !.sendLog = Append(@, message)] IN
    IF t0.sseController # undefined
    THEN [t0 EXCEPT !.streams[t0.sseController].events = Append(@, message)]
    ELSE IF t0.responseResolver # undefined
    THEN [t0 EXCEPT
            !.exchanges[t0.responseResolver] =
                [@ EXCEPT !.pc = "returned",
                          !.resp = HttpResponse(200, "application/json", 0, "",
                                                message, undefined,
                                                t0.sessionId)],
            !.responseResolver = undefined]
    ELSE t0

\* a close() that also forgets the session (differs from the source in the
\* last two assignments)
close_forgetsSession(t) ==
    LET t1 == IF t.sseController # undefined
              THEN [t EXCEPT !.streams[t.sseController].state = "closed"]
              ELSE t
    IN [t1 EXCEPT !.sseController = undefined,
                  !.sseStreamActive = FALSE,
                  !.oncloseCalls = @ + 1,
                  !.initialized = FALSE,
                  !.sessionId = undefined]

close(t) ==
    LET t1 == IF t.sseController # undefined
              THEN [t EXCEPT !.streams[t.sseController].state = "closed"]
              ELSE t
    IN [t1 EXCEPT !.sseController = undefined,
                  !.sseStreamActive = FALSE,
                  !.oncloseCalls = @ + 1]

\* The cancel callback of stream s (its consumer went away).
cancel(t, s) ==
    [t EXCEPT !.streams[s].state = "cancelled",
              !.sseController = undefined,
              !.sseStreamActive = FALSE,
              !.oncloseCalls = @ + 1]

createStreamingResponse(t, by) ==
    LET s == Len(t.streams) + 1 IN
    Result([t EXCEPT !.streams = Append(@, [state |-> "open", events |-> <<>>,
                                            by |-> by]),
                     !.sseController = s],
           HttpResponse(200, "text/event-stream", 0, "", NoMsg, s, t.sessionId))

validateSessionHeader(t, request) ==
    request.session # 0 /\ request.session = t.sessionId

\* msg.method.endsWith("/initialize"): the name has a "/" and its last
\* segment is "initialize".
endsWithSlashInitialize(method) ==
    Len(method) >= 2 /\ method[Len(method)] = "initialize"

isInit(messages) ==
    \E i \in DOMAIN messages :
        /\ messages[i].kind \in {"request", "notification"}
        /\ endsWithSlashInitialize(messages[i].method)

\* JSONRPCMessageSchema.parse succeeds on e
parses(e) == e.kind \in {"request", "notification", "response"}

(***************************************************************************)
(* StatelessServerTransport                                                *)
(***************************************************************************)
Stateless_send(t, message) ==
    LET t0 == [t EXCEPT !.sendLog = Append(@, message)] IN
    IF t0._controller # undefined
    THEN [t0 EXCEPT !.streams[t0._controller].events = Append(@, message)]
    ELSE IF t0._responseResolver # undefined
    THEN [t0 EXCEPT
            !.exchanges[t0._responseResolver] =
                [@ EXCEPT !.pc = "returned",
                          !.resp = HttpResponse(200, "application/json", 0, "",
                                                message, undefined, undefined)],
            !._responseResolver = undefined]
    ELSE t0

Stateless_close(t) ==
    LET t1 == IF t._controller # undefined
              THEN [t EXCEPT !.streams[t._controller].state = "closed"]
              ELSE t
    IN [t1 EXCEPT !._controller = undefined, !.oncloseCalls = @ + 1]

Stateless_createStreamingResponse(t) ==
    LET s == Len(t.streams) + 1 IN
    Result([t EXCEPT !.streams = Append(@, [state |-> "open", events |-> <<>>,
                                            by |-> "POST"]),
                     !._controller = s],
           HttpResponse(200, "text/event-stream", 0, "", NoMsg, s, undefined))

shouldUpgradeToStreaming(message) == FALSE

\* The observer behind onmessage.  It records the message; a "sync" observer
\* answers a request by calling send before it returns, an "async" one
\* answers later, if at all (action Send).
onmessage(t, msg, cb) ==
    LET t1 == [t EXCEPT !.delivered = Append(@, msg)] IN
    IF cb = "sync" /\ msg.kind = "request"
    THEN IF t.cls = "HttpServerTransport"
         THEN send(t1, Response(msg.id))
         ELSE Stateless_send(t1, Response(msg.id))
    ELSE t1

\* a loop that hands the messages over from the last to the first (differs
\* from the source in the direction)
RECURSIVE deliver_reversed(_, _, _)
deliver_reversed(t, messages, cb) ==
    IF messages = <<>> THEN t
    ELSE deliver_reversed(onmessage(t, messages[Len(messages)], cb),
                          SubSeq(messages, 1, Len(messages) - 1), cb)

RECURSIVE deliver(_, _, _)
deliver(t, messages, cb) ==
    IF messages = <<>> THEN t
    ELSE deliver(onmessage(t, Head(messages), cb), Tail(messages), cb)

\* new Promise(resolve => this.responseResolver = resolve)
awaitResponse(t) ==
    LET e == Len(t.exchanges) + 1 IN
    Result([t EXCEPT !.exchanges = Append(@, [pc |-> "waiting", resp |-> Pending,
                                              first |-> NoMsg]),
                     !.responseResolver = e],
           Pending)

handlePost(t, request, cb) ==
    LET body == request.body
        messages == body.elems
    IN
    IF ~body.json
    THEN Result(t, jsonRpcError(ParseError, "Parse error", 400))
    ELSE IF \E i \in DOMAIN messages : ~parses(messages[i])
    THEN Result(t, jsonRpcError(InvalidRequest,
                "Invalid Request: JSON-RPC message validation failed", 400))
    ELSE IF isInit(messages) /\ t.initialized /\ t.sessionId # undefined
    THEN Result(t, jsonRpcError(InvalidRequest,
                "Invalid Request: Server already initialized", 400))
    ELSE IF isInit(messages) /\ Len(messages) > 1
    THEN Result(t, jsonRpcError(InvalidRequest,
                "Invalid Request: Only one initialization request is allowed",
                400))
    ELSE IF ~isInit(messages) /\ t.sessionIdGenerator
                              /\ ~validateSessionHeader(t, request)
    THEN Result(t, jsonRpcError(ServerError,
                "Bad Request: Mcp-Session-Id header is required", 400))
    ELSE
        LET t1 == IF isInit(messages)
                  THEN [t EXCEPT
                          !.sessionId = IF t.sessionIdGenerator
                                        THEN t.generated + 1 ELSE undefined,
                          !.generated = IF t.sessionIdGenerator
                                        THEN @ + 1 ELSE @,
                          !.initialized = TRUE]
                  ELSE t
            t2 == deliver(t1, messages, cb)
        IN IF t2.enableJsonResponse
           THEN awaitResponse(t2)
           ELSE createStreamingResponse(t2, "POST")

\* a handleGet that gives up the open stream's flag when it refuses a
\* second stream (differs from the source in the state it leaves)
handleGet_releasing(t, request) ==
    IF t.sseStreamActive
    THEN Result([t EXCEPT !.sseStreamActive = FALSE],
                jsonRpcError(ServerError,
                "Conflict: Only one SSE stream is allowed per session", 409))
    ELSE createStreamingResponse([t EXCEPT !.sseStreamActive = TRUE], "GET")

handleGet(t, request) ==
    IF t.sseStreamActive
    THEN Result(t, jsonRpcError(ServerError,
                "Conflict: Only one SSE stream is allowed per session", 409))
    ELSE createStreamingResponse([t EXCEPT !.sseStreamActive = TRUE], "GET")

handleDelete(t, request) ==
    Result(close(t), HttpResponse(200, "", 0, "", NoMsg, undefined, undefined))

\* handleMessage without the Content-Type validation of POSTs
handleMessage_anyContentType(t, request, cb) ==
    IF "application/json" \notin request.accept
       /\ "text/event-stream" \notin request.accept
    THEN Result(t, jsonRpcError(ServerError,
                "Not Acceptable: Accept must include application/json or text/event-stream",
                406))
    ELSE IF t.sessionIdGenerator /\ ~t.initialized /\ request.method # "POST"
    THEN Result(t, jsonRpcError(ServerError,
                "Bad Request: Server not initialized", 400))
    ELSE IF t.sessionIdGenerator /\ t.initialized /\ request.method # "POST"
            /\ request.session = 0
    THEN Result(t, jsonRpcError(ServerError,
                "Bad Request: Mcp-Session-Id header is required", 400))
    ELSE IF t.sessionIdGenerator /\ t.initialized /\ request.method # "POST"
            /\ request.session # t.sessionId
    THEN Result(t, jsonRpcError(SessionNotFound, "Session not found", 404))
    ELSE IF request.method = "POST" THEN handlePost(t, request, cb)
    ELSE IF request.method = "GET" THEN handleGet(t, request)
    ELSE IF request.method = "DELETE" THEN handleDelete(t, request)
    ELSE Result(t, jsonRpcError(ServerError, "Method not allowed.", 405))

handleMessage(t, request, cb) ==
    IF "application/json" \notin request.accept
       /\ "text/event-stream" \notin request.accept
    THEN Result(t, jsonRpcError(ServerError,
                "Not Acceptable: Accept must include application/json or text/event-stream",
                406))
    ELSE IF request.method = "POST" /\ request.contentType # "application/json"
    THEN Result(t, jsonRpcError(ServerError,
                "Unsupported Media Type: Content-Type must be application/json",
                415))
    ELSE IF t.sessionIdGenerator /\ ~t.initialized /\ request.method # "POST"
    THEN Result(t, jsonRpcError(ServerError,
                "Bad Request: Server not initialized", 400))
    ELSE IF t.sessionIdGenerator /\ t.initialized /\ request.method # "POST"
            /\ request.session = 0
    THEN Result(t, jsonRpcError(ServerError,
                "Bad Request: Mcp-Session-Id header is required", 400))
    ELSE IF t.sessionIdGenerator /\ t.initialized /\ request.method # "POST"
            /\ request.session # t.sessionId
    THEN Result(t, jsonRpcError(SessionNotFound, "Session not found", 404))
    ELSE IF request.method = "POST" THEN handlePost(t, request, cb)
    ELSE IF request.method = "GET" THEN handleGet(t, request)
    ELSE IF request.method = "DELETE" THEN handleDelete(t, request)
    ELSE Result(t, jsonRpcError(ServerError, "Method not allowed.", 405))

\* The catch block of handleMessage: onerror, then a plain-text 400.
Stateless_failed(t, error) ==
    Result([t EXCEPT !.onerrorCalls = @ + 1],
           HttpResponse(400, "text/plain", 0, error, NoMsg, undefined, undefined))

Stateless_handleMessage(t, request, cb) ==
    LET body == request.body IN
    IF request.contentType # "application/json"
    THEN Stateless_failed(t,
            "Error: Unsupported content-type: Expected application/json")
    ELSE IF ~body.json
    THEN Stateless_failed(t, "SyntaxError")
    ELSE IF body.array \/ ~parses(body.elems[1])
    THEN Stateless_failed(t, "ZodError")
    ELSE
        LET message == body.elems[1]
            t1 == onmessage(t, message, cb)
            e == Len(t1.exchanges) + 1
            t2 == [t1 EXCEPT
                    !.exchanges = Append(@, [pc |-> "waiting", resp |-> Pending,
                                             first |-> NoMsg]),
                    !._responseResolver = e]
        IN IF shouldUpgradeToStreaming(message)
           THEN LET r == Stateless_createStreamingResponse(t2) IN
                Result([r.t EXCEPT !.exchanges[e] =
                            [@ EXCEPT !.pc = "returned", !.resp = r.resp]],
                       r.resp)
           ELSE Result(t2, Pending)

(***************************************************************************)
(* Spec: one transport instance and its callers.  A POST is one step: the  *)
(* header checks made before `await request.json()` read no field of the   *)
(* transport, so the step is taken when the body has arrived.              *)
(***************************************************************************)
RECURSIVE Enqueued(_)
Enqueued(streams) ==
    IF streams = <<>> THEN 0
    ELSE Len(Head(streams).events) + Enqueued(Tail(streams))

WithinBounds(t) ==
    /\ Len(t.exchanges) + Len(t.streams) <= MaxCreated
    /\ Enqueued(t.streams) <= MaxEvents
    /\ t.oncloseCalls <= MaxCloses
    /\ t.onerrorCalls <= MaxCloses

\* The record of a call: what was called with which request, the HTTP
\* response it returned, the messages it passed to onmessage and, for send,
\* the message sent.
Call(op, request, resp, delivered, msg) ==
    [op |-> op, request |-> request, resp |-> resp, delivered |-> delivered,
     msg |-> msg]

\* After an operation: every exchange that had seen no send() call since it
\* began notes the first one made during the operation (first is history,
\* no field of the class), and the observers' view is cleared.
Settle(t) ==
    [t EXCEPT
        !.exchanges =
            [e \in DOMAIN t.exchanges |->
                IF t.exchanges[e].first = NoMsg /\ t.sendLog # <<>>
                THEN [t.exchanges[e] EXCEPT !.first = Head(t.sendLog)]
                ELSE t.exchanges[e]],
        !.sendLog = <<>>,
        !.delivered = <<>>]

Callbacks == {"async", "sync"}

TransportInit ==
    /\ tr \in { HttpServerTransport(g, j) : g \in BOOLEAN, j \in BOOLEAN }
              \cup { StatelessServerTransport }
    /\ last = Call("new", NoRequest, NoResponse, <<>>, NoMsg)

HandleMessage(request, cb) ==
    /\ tr.cls = "HttpServerTransport"
    /\ LET r == handleMessage(tr, request, cb) IN
        /\ WithinBounds(r.t)
        /\ tr' = Settle(r.t)
        /\ last' = Call("handleMessage", request, r.resp, r.t.delivered, NoMsg)
    /\ UNCHANGED TransportFrame

Send(message) ==
    /\ tr.cls = "HttpServerTransport"
    /\ WithinBounds(send(tr, message))
    /\ tr' = Settle(send(tr, message))
    /\ last' = Call("send", NoRequest, NoResponse, <<>>, message)
    /\ UNCHANGED TransportFrame

Close ==
    /\ tr.cls = "HttpServerTransport"
    /\ WithinBounds(close(tr))
    /\ tr' = Settle(close(tr))
    /\ last' = Call("close", NoRequest, NoResponse, <<>>, NoMsg)
    /\ UNCHANGED TransportFrame

\* the consumer of an open event stream cancels it (client disconnect)
Cancel(s) ==
    /\ tr.cls = "HttpServerTransport"
    /\ tr.streams[s].state = "open"
    /\ WithinBounds(cancel(tr, s))
    /\ tr' = Settle(cancel(tr, s))
    /\ last' = Call("cancel", NoRequest, NoResponse, <<>>, NoMsg)
    /\ UNCHANGED TransportFrame

StatelessHandleMessage(request, cb) ==
    /\ tr.cls = "StatelessServerTransport"
    /\ request.method = "POST"
    /\ LET r == Stateless_handleMessage(tr, request, cb) IN
        /\ WithinBounds(r.t)
        /\ tr' = Settle(r.t)
        /\ last' = Call("handleMessage", request, r.resp, r.t.delivered, NoMsg)
    /\ UNCHANGED TransportFrame

StatelessSend(message) ==
    /\ tr.cls = "StatelessServerTransport"
    /\ WithinBounds(Stateless_send(tr, message))
    /\ tr' = Settle(Stateless_send(tr, message))
    /\ last' = Call("send", NoRequest, NoResponse, <<>>, message)
    /\ UNCHANGED TransportFrame

StatelessClose ==
    /\ tr.cls = "StatelessServerTransport"
    /\ WithinBounds(Stateless_close(tr))
    /\ tr' = Settle(Stateless_close(tr))
    /\ last' = Call("close", NoRequest, NoResponse, <<>>, NoMsg)
    /\ UNCHANGED TransportFrame

TransportNext ==
    \/ \E request \in HttpRequests, cb \in Callbacks : HandleMessage(request, cb)
    \/ \E message \in SendMsgs : Send(message)
    \/ Close
    \/ \E s \in DOMAIN tr.streams : Cancel(s)
    \/ \E request \in HttpRequests, cb \in Callbacks :
            StatelessHandleMessage(request, cb)
    \/ \E message \in SendMsgs : StatelessSend(message)
    \/ StatelessClose

Init ==
    /\ TransportInit
    /\ FacadeIdle /\ ToolsIdle /\ SchemaIdle
    /\ MiddlewareIdle /\ FilterIdle /\ SocketIdle /\ RegistryIdle
    /\ DispatchIdle /\ ClientIdle

Next == TransportNext

Spec == Init /\ [][Next]_vars

TransportIdle ==
    /\ tr = HttpServerTransport(FALSE, FALSE)
    /\ last = Call("new", NoRequest, NoResponse, <<>>, NoMsg)

(***************************************************************************)
(* Claims about one transport instance (Spec).                             *)
(***************************************************************************)
Exchanges == { tr.exchanges[e] : e \in DOMAIN tr.exchanges }
OpenStreams == { s \in DOMAIN tr.streams : tr.streams[s].state = "open" }

\* C1: in immediate-JSON mode handleMessage returns only after send has been
\* called, and what it returns is the message of the first send call made
\* since it began, as an application/json body.
C1_ReturnsFirstSend ==
    \A x \in Exchanges :
        x.pc = "returned" =>
            /\ x.first # NoMsg
            /\ x.resp.body = x.first
            /\ x.resp.ctype = "application/json"

\* C2: close() unblocks a handleMessage call that waits for send: right
\* after a close() call no exchange of the transport is still waiting.
C2_CloseUnblocksWait ==
    last.op = "close" => \A x \in Exchanges : x.pc # "waiting"

\* C3: at most one event stream created by the transport is open (created
\* and neither closed nor cancelled) at any time.
C3_AtMostOneOpenStream == Cardinality(OpenStreams) <= 1

\* POSTs with proper headers
GoodPost(r) ==
    /\ r.method = "POST"
    /\ "application/json" \in r.accept
    /\ r.contentType = "application/json"

\* POSTs with proper headers that carry one initialize request, under the
\* method name `initialize` or a prefixed one
InitializePosts ==
    { r \in HttpRequests :
        GoodPost(r) /\ r.body \in { Single(ReqInitialize),
                                    Single(ReqPrefixedInitialize) } }

\* C4: once the session is initialized, an `initialize` request is rejected
\* with InvalidRequest (-32600, HTTP 400, "already initialized") and is not
\* delivered to onmessage.
C4_SecondInitializeRejected ==
    (tr.cls = "HttpServerTransport" /\ tr.initialized) =>
        \A request \in InitializePosts, cb \in Callbacks :
            LET r == handleMessage(tr, request, cb) IN
                /\ r.resp.status = 400
                /\ r.resp.code = InvalidRequest
                /\ r.resp.message = "Invalid Request: Server already initialized"
                /\ r.t.delivered = <<>>

\* C5: once initialized, the transport stays initialized and keeps the
\* session id it was given, whatever is called on it afterwards; the id
\* generator is asked at most once.
C5_InitializedOnce ==
    [][ /\ tr.initialized => (tr'.initialized /\ tr'.sessionId = tr.sessionId)
        /\ tr'.generated <= 1 ]_vars

C5_Witness ==
    /\ tr.initialized /\ tr.sessionId # undefined
    /\ tr.oncloseCalls = MaxCloses
    /\ \E s \in DOMAIN tr.streams : tr.streams[s].state = "cancelled"
    /\ last.op = "handleMessage" /\ last.request.method = "DELETE"
    /\ last.resp.status = 200

\* the body is not JSON, or holds an element that is no JSON-RPC message
Malformed(body) ==
    ~body.json \/ \E i \in DOMAIN body.elems : body.elems[i] = Invalid

\* C8: a POST (with acceptable headers) whose body is not valid JSON, or
\* holds an element that fails validation, is answered with a JSON-RPC error
\* (-32700 resp. -32600, HTTP 400) and none of its messages reaches
\* onmessage.
C8_MalformedRejected ==
    (last.op = "handleMessage" /\ GoodPost(last.request)
                               /\ Malformed(last.request.body)) =>
        /\ last.resp.status = 400
        /\ last.resp.ctype = "application/json"
        /\ last.resp.code = IF last.request.body.json
                             THEN InvalidRequest ELSE ParseError
        /\ last.delivered = <<>>

(***************************************************************************)
(* The server facade: stateless POSTs to the messages endpoint.  Every     *)
(* request gets a transport of its own (HttpServerTransport with default   *)
(* options), which is connected to an McpServer, handed the request and    *)
(* closed.  The McpServer is one instance shared by all requests           *)
(* (src/mcp/server.ts, src/unnamed/part_010) or one per request            *)
(* (src/unnamed/part_011).  A server has one slot for the transport it is  *)
(* connected to; the response of a request handler leaves through the      *)
(* transport captured when the request came in, or through the slot's      *)
(* transport at the time the handler finishes, depending on the protocol   *)
(* library the build is linked with.                                       *)
(***************************************************************************)
MaxRequests == 2        \* stateless requests in flight on one server

Requests == 1 .. MaxRequests

Facades == { "shared", "perRequest" }
Routings == { "captured", "connected" }

\* request X is a POST carrying one JSON-RPC request with id X
StatelessPost(x) ==
    HttpRequest("POST", {"application/json"}, "application/json", 0,
                Single(Request(x, MToolsCall)))

\* the McpServer instance that serves request x
ServerOf(m, x) == IF m.facade = "shared" THEN 0 ELSE x

setupMcpServer(facade, routing) ==
    [ facade |-> facade,
      routing |-> routing,
      transport |-> [ srv \in 0 .. MaxRequests |-> undefined ],
      inflight |-> {} ]

\* mcp.server.connect(transport): the transport takes the server's slot
connect(m, x) == [m EXCEPT !.transport[ServerOf(m, x)] = x]

\* the transport's onclose, wired by connect: the server's slot is emptied
onclose(m, x) == [m EXCEPT !.transport[ServerOf(m, x)] = undefined]

Idle ==
    [ pc |-> "idle",
      transport |-> HttpServerTransport(FALSE, FALSE),
      response |-> NoResponse,
      answered |-> FALSE ]

FacadeInit ==
    /\ mcp \in { setupMcpServer(f, g) : f \in Facades, g \in Routings }
    /\ conn = [ x \in Requests |-> Idle ]
    /\ TransportIdle
    /\ ToolsIdle /\ SchemaIdle /\ MiddlewareIdle /\ FilterIdle /\ SocketIdle /\ RegistryIdle
    /\ DispatchIdle /\ ClientIdle

\* const transport = new HttpServerTransport(); mcp.server.connect(transport)
Connect(x) ==
    /\ conn[x].pc = "idle"
    /\ conn' = [conn EXCEPT ![x].pc = "connected",
                            ![x].transport = HttpServerTransport(FALSE, FALSE)]
    /\ mcp' = connect(mcp, x)
    /\ UNCHANGED FacadeFrame

\* const response = await transport.handleMessage(c.req.raw): the request is
\* delivered to the server, whose handler answers later
HandleStateless(x) ==
    /\ conn[x].pc = "connected"
    /\ LET r == handleMessage(conn[x].transport, StatelessPost(x), "async") IN
        /\ WithinBounds(r.t)
        /\ conn' = [conn EXCEPT ![x].pc = "handled",
                                ![x].transport = Settle(r.t),
                                ![x].response = r.resp]
        /\ mcp' = [mcp EXCEPT !.inflight =
                        @ \cup { m.id : m \in { r.t.delivered[i] :
                                                i \in DOMAIN r.t.delivered } }]
    /\ UNCHANGED FacadeFrame

\* transport.close(); return response
CloseStateless(x) ==
    /\ conn[x].pc = "handled"
    /\ conn' = [conn EXCEPT ![x].pc = "closed",
                            ![x].transport = Settle(close(@))]
    /\ mcp' = onclose(mcp, x)
    /\ UNCHANGED FacadeFrame

\* the request handler of request x finishes and its result is sent
Respond(x) ==
    /\ x \in mcp.inflight
    /\ LET via == IF mcp.routing = "captured"
                  THEN x ELSE mcp.transport[ServerOf(mcp, x)]
       IN
        /\ via # undefined => WithinBounds(send(conn[via].transport, Response(x)))
        /\ conn' = IF via = undefined
                   THEN [conn EXCEPT ![x].answered = TRUE]
                   ELSE [ [conn EXCEPT ![x].answered = TRUE] EXCEPT
                            ![via].transport = Settle(send(@, Response(x))) ]
    /\ mcp' = [mcp EXCEPT !.inflight = @ \ {x}]
    /\ UNCHANGED FacadeFrame

FacadeNext ==
    \/ \E x \in Requests : Connect(x)
    \/ \E x \in Requests : HandleStateless(x)
    \/ \E x \in Requests : CloseStateless(x)
    \/ \E x \in Requests : Respond(x)

SpecFacade == FacadeInit /\ [][FacadeNext]_vars

\* the events a request's transport has written to the streams it created
Written(x) ==
    UNION { { conn[x].transport.streams[s].events[e] :
                e \in DOMAIN conn[x].transport.streams[s].events } :
            s \in DOMAIN conn[x].transport.streams }

C7_ResponseBeforeClose ==
    \A x \in Requests :
        conn[x].pc = "closed" => Response(x) \in Written(x)

(***************************************************************************)
(* The tool registry of one McpServer (registerTools): the tools/list and  *)
(* tools/call handlers over the closure variable toolNames, as written in  *)
(* src/mcp/server.ts and in src/unnamed/part_011.  Names are sequences of  *)
(* characters, so that slugify and the clash suffixes act on the text.     *)
(***************************************************************************)
MaxLoading == 1     \* tools/list requests waiting for deco.meta()
MaxCalling == 1     \* tools/call requests waiting for their own loadTools()

Files == { "server.ts", "part_011" }

Some(v) == [defined |-> TRUE, value |-> v]
None == [defined |-> FALSE, value |-> <<>>]

\* the characters of [a-zA-Z0-9_-] that occur in the names below
WordChars == { "a", "b", "c", "d", "1", "2", "3", "-", "_" }

RECURSIVE slugify(_)
slugify(name) ==
    IF name = <<>> THEN <<>>
    ELSE LET c == Head(name)
             d == IF c \in {".", "/"} THEN "-" ELSE c
         IN (IF d \in WordChars THEN <<d>> ELSE <<>>) \o slugify(Tail(name))

\* Map<string, string>
EmptyMap == [ k \in {} |-> <<>> ]
Map_has(m, k) == k \in DOMAIN m
Map_set(m, k, v) == [ x \in DOMAIN m \cup {k} |-> IF x = k THEN v ELSE m[x] ]

\* resolve types (__resolveType) of the functions of the schema source
RA == << "a", "/", "b" >>
RB == << "a", ".", "b" >>
RC == << "c", " ", "d" >>
RI == << "_", "c" >>

\* an entry of a block's anyOf list together with the definition its $ref
\* names: ref is "none" (no $ref), "Resolvable" or "definition"
Func(ref, resolveType, name, title, internal) ==
    [ ref |-> ref, resolveType |-> resolveType, name |-> name,
      title |-> title, internal |-> internal ]

FA == Func("definition", RA, None, None, FALSE)
FB == Func("definition", RB, None, Some(<< "a", "/", "b" >>), FALSE)
FC == Func("definition", RC, Some(<< "a", "-", "b" >>), None, FALSE)
FI == Func("definition", RI, None, None, TRUE)
FR == Func("Resolvable", <<>>, None, None, FALSE)
FN == Func("none", <<>>, None, None, FALSE)

\* the values deco.meta() can resolve to: no meta at all, or a schema whose
\* blocks hold these functions in this order
NoMeta == [defined |-> FALSE, funcs |-> <<>>]
Meta(funcs) == [defined |-> TRUE, funcs |-> funcs]
Metas ==
    { NoMeta,
      Meta(<< FA, FB >>),
      Meta(<< FB, FA >>),
      Meta(<< FB >>),
      Meta(<< FA, FB, FC, FN >>),
      Meta(<< FA, FA, FI, FR >>) }

NoOptions == [include |-> None, exclude |-> None]
OptionsSet == { NoOptions, [include |-> None, exclude |-> Some({RB})],
                [include |-> Some({RA, RB}), exclude |-> None] }

\* the names a client asks for
CallNames ==
    { << "a", "-", "b" >>, << "a", "-", "b", "-", "1" >>, << "_", "c" >>,
      << "z" >> }

\* what deco.invoke does: it returns, or throws one of these values
Thrown(kind, message, status) ==
    [kind |-> kind, message |-> message, status |-> status]
NotThrown == Thrown("none", "", undefined)
Throwables ==
    { Thrown("Error", "boom", undefined),
      Thrown("Error", "forbidden", 403),
      Thrown("string", "oops", undefined) }
Outcomes == { NotThrown } \cup Throwables

\* a clash loop that moves on from every taken name, whoever holds it
\* (differs from the source in the missing test of the holder)
RECURSIVE uniqueName_anyHolder(_, _, _, _)
uniqueName_anyHolder(toolNames, toolName, idx, resolveType) ==
    IF Map_has(toolNames, toolName)
    THEN uniqueName_anyHolder(toolNames, toolName \o << "-", ToString(idx) >>,
                              idx + 1, resolveType)
    ELSE toolName

\* no clash loop: the candidate is taken as it is (differs from the source
\* in the missing loop)
uniqueName_candidate(toolNames, toolName, idx, resolveType) == toolName

\* the first free name: toolName, toolName-1, toolName-1-2, ...
RECURSIVE uniqueName(_, _, _, _)
uniqueName(toolNames, toolName, idx, resolveType) ==
    IF Map_has(toolNames, toolName) /\ toolNames[toolName] # resolveType
    THEN uniqueName(toolNames, toolName \o << "-", ToString(idx) >>, idx + 1,
                    resolveType)
    ELSE toolName

\* the name a function asks for
candidateName(file, func) ==
    IF func.name.defined THEN func.name.value
    ELSE IF file = "part_011" /\ func.title.defined
    THEN slugify(func.title.value)
    ELSE slugify(func.resolveType)

\* the early returns of the map callback in getTools
skipped(file, options, func) ==
    \/ func.ref # "definition"
    \/ options.include.defined /\ func.resolveType \notin options.include.value
    \/ options.exclude.defined /\ func.resolveType \in options.exclude.value
    \/ file = "part_011" /\ func.internal

\* getTools: the tools of the schema, and toolNames as it leaves it
RECURSIVE getTools(_, _, _, _)
getTools(file, toolNames, funcs, options) ==
    IF funcs = <<>>
    THEN [toolNames |-> toolNames, tools |-> <<>>]
    ELSE IF skipped(file, options, Head(funcs))
    THEN getTools(file, toolNames, Tail(funcs), options)
    ELSE LET func == Head(funcs)
             toolName == uniqueName(toolNames, candidateName(file, func), 1,
                                    func.resolveType)
             rest == getTools(file,
                              Map_set(toolNames, toolName, func.resolveType),
                              Tail(funcs), options)
         IN [ toolNames |-> rest.toolNames,
              tools |-> << [name |-> toolName,
                            resolveType |-> func.resolveType] >>
                        \o rest.tools ]

\* the result of a tools/call: what the terminal step of the chain returns
\* ("result") or that it threw ("throws"); invoked says whether deco.invoke
\* was called, and with which resolve type; listed and inList say whether
\* a tools/list had completed before and whether it returned the name
CallResult(name, kind, isError, message, status, invoked, thrown, r) ==
    [ name |-> name, kind |-> kind, isError |-> isError,
      message |-> message, status |-> status,
      invoked |-> invoked, thrown |-> thrown,
      listed |-> r.listed.done, inList |-> name \in r.listed.names ]

NoCall ==
    [ name |-> <<>>, kind |-> "none", isError |-> FALSE, message |-> "",
      status |-> undefined, invoked |-> None, thrown |-> NotThrown,
      listed |-> FALSE, inList |-> FALSE ]

\* the catch block of invokeTool
caught(r, name, err, invoked) ==
    IF r.file = "part_011"
    THEN CallResult(name, "result", TRUE, err.message, err.status, invoked,
                    err, r)
    ELSE CallResult(name, "throws", FALSE, err.message, err.status, invoked,
                    err, r)

\* invokeTool, from the lookup of the name on
invokeTool(r, name, outcome) ==
    IF ~Map_has(r.toolNames.map, name)
    THEN caught(r, name, Thrown("Error", "Tool not found", undefined), None)
    ELSE LET originalName == r.toolNames.map[name] IN
         IF outcome = NotThrown
         THEN CallResult(name, "result", FALSE, "", undefined,
                         Some(originalName), NotThrown, r)
         ELSE caught(r, name, outcome, Some(originalName))

\* loadTools after deco.meta() has resolved
loadTools(r) ==
    IF ~r.meta.defined
    THEN [toolNames |-> r.toolNames.map, tools |-> <<>>]
    ELSE getTools(r.file, r.toolNames.map, r.meta.funcs, r.options)

registerTools(file, options, meta) ==
    [ file |-> file,
      options |-> options,
      meta |-> meta,
      toolNames |-> [isNull |-> TRUE, map |-> EmptyMap],
      loading |-> 0,
      calling |-> {},
      listed |-> [done |-> FALSE, names |-> {}],
      call |-> NoCall ]

ToolsInit ==
    /\ reg \in { registerTools(f, o, m) :
                    f \in Files, o \in OptionsSet, m \in Metas }
    /\ TransportIdle
    /\ FacadeIdle /\ SchemaIdle /\ MiddlewareIdle /\ FilterIdle /\ SocketIdle /\ RegistryIdle
    /\ DispatchIdle /\ ClientIdle

\* the schema source changes (a deploy, a new block)
SchemaChange(meta) ==
    /\ meta # reg.meta
    /\ reg' = [reg EXCEPT !.meta = meta]
    /\ UNCHANGED ToolsFrame

\* tools/list: loadTools up to its await of deco.meta()
ListToolsBegin ==
    /\ reg.loading < MaxLoading
    /\ reg' = [reg EXCEPT !.toolNames.isNull = FALSE, !.loading = @ + 1]
    /\ UNCHANGED ToolsFrame

\* tools/list: deco.meta() resolves, the tools are derived and returned
ListToolsEnd ==
    /\ reg.loading > 0
    /\ LET l == loadTools(reg) IN
        reg' = [reg EXCEPT
                  !.toolNames.map = l.toolNames,
                  !.loading = @ - 1,
                  !.listed = [done |-> TRUE,
                              names |-> { l.tools[i].name :
                                            i \in DOMAIN l.tools }]]
    /\ UNCHANGED ToolsFrame

\* tools/call while toolNames exists
CallTool(name, outcome) ==
    /\ ~reg.toolNames.isNull
    /\ reg' = [reg EXCEPT !.call = invokeTool(reg, name, outcome)]
    /\ UNCHANGED ToolsFrame

\* tools/call while toolNames is null: invokeTool awaits its own loadTools()
CallToolBegin(name) ==
    /\ reg.toolNames.isNull
    /\ Cardinality(reg.calling) < MaxCalling
    /\ reg' = [reg EXCEPT !.toolNames.isNull = FALSE,
                          !.calling = @ \cup {name}]
    /\ UNCHANGED ToolsFrame

\* ... loadTools() has returned, the name is looked up
CallToolLoaded(name, outcome) ==
    /\ name \in reg.calling
    /\ LET l == loadTools(reg)
           r == [reg EXCEPT !.toolNames.map = l.toolNames,
                            !.calling = @ \ {name}]
       IN reg' = [r EXCEPT !.call = invokeTool(r, name, outcome)]
    /\ UNCHANGED ToolsFrame

ToolsNext ==
    \/ \E meta \in Metas : SchemaChange(meta)
    \/ ListToolsBegin
    \/ ListToolsEnd
    \/ \E name \in CallNames, outcome \in Outcomes : CallTool(name, outcome)
    \/ \E name \in CallNames : CallToolBegin(name)
    \/ \E name \in CallNames, outcome \in Outcomes :
            CallToolLoaded(name, outcome)

SpecTools == ToolsInit /\ [][ToolsNext]_vars

\* C9: a tools/call whose name is not among the names returned by the most
\* recent tools/list returns a result with isError = true and does not call
\* deco.invoke.
C9_UnlistedNameIsError ==
    (reg.call.kind # "none" /\ reg.call.listed /\ ~reg.call.inList) =>
        /\ reg.call.kind = "result"
        /\ reg.call.isError
        /\ ~reg.call.invoked.defined

\* C10: when deco.invoke throws during a tools/call, the terminal step
\* returns a result with isError = true that carries the error's message
\* and status; it does not throw.
C10_InvokeFailureIsResult ==
    (reg.call.invoked.defined /\ reg.call.thrown # NotThrown) =>
        /\ reg.call.kind = "result"
        /\ reg.call.isError
        /\ reg.call.message = reg.call.thrown.message
        /\ reg.call.status = reg.call.thrown.status

\* the schema sources that carry a schema
Schemas == { m \in Metas : m.defined }

\* the names of a tool list, in order
NamesOf(tools) == [ i \in DOMAIN tools |-> tools[i].name ]

RECURSIVE kept(_, _, _)
kept(file, options, funcs) ==
    IF funcs = <<>> THEN <<>>
    ELSE (IF skipped(file, options, Head(funcs)) THEN <<>>
          ELSE << Head(funcs) >>) \o kept(file, options, Tail(funcs))

\* the resolve types, other than that of entry i, that asked for the name
\* of entry i before it
EarlierRivals(file, fs, i) ==
    { fs[j].resolveType : j \in { j \in 1 .. (i - 1) :
        /\ candidateName(file, fs[j]) = candidateName(file, fs[i])
        /\ fs[j].resolveType # fs[i].resolveType } }

\* n for the first resolve type that asks for n, n-1 for the second, n-2
\* for the third, ...
SuffixedName(file, fs, i) ==
    LET n == candidateName(file, fs[i])
        k == Cardinality(EarlierRivals(file, fs, i))
    IN IF k = 0 THEN n ELSE n \o << "-", ToString(k) >>

\* C12: in one derivation from an empty name cache, the distinct resolve
\* types that ask for the same name n get n, n-1, n-2, ... in enumeration
\* order.
C12_SuffixesInOrder ==
    reg.meta.defined =>
        LET fs == kept(reg.file, reg.options, reg.meta.funcs)
            g == getTools(reg.file, EmptyMap, reg.meta.funcs, reg.options)
        IN \A i \in DOMAIN fs : g.tools[i].name = SuffixedName(reg.file, fs, i)

\* C13: the names in the list one getTools call returns are pairwise
\* different, also when the schema lists a function in several blocks.
C13_NamesUniqueInList ==
    reg.meta.defined =>
        LET g == getTools(reg.file, reg.toolNames.map, reg.meta.funcs,
                          reg.options)
        IN \A i, j \in DOMAIN g.tools :
                g.tools[i].name = g.tools[j].name => i = j

(***************************************************************************)
(* dereferenceSchema (src/unnamed/part_013, both versions in the file).    *)
(* A schema is a node [kind, key, sub]: kind names the keyword that        *)
(* carries its sub-schemas ("object": properties, "array": items, "anyOf", *)
(* "oneOf", "allOf", "additional": additionalProperties), "ref" is a $ref  *)
(* to definitions[key], "typeArray" a schema whose type is an array,       *)
(* "string" a leaf.  In a result, "expanded" is the object a $ref to key   *)
(* was merged into (sub holds the dereferenced definition), "anyOfTypes"   *)
(* what a "typeArray" becomes, "undefined" and "TypeError" what the call   *)
(* returns or throws for a missing definition.                             *)
(***************************************************************************)
MaxDepth == 12      \* nesting of dereferenceSchema calls that is followed

Node(kind, key, sub) == [kind |-> kind, key |-> key, sub |-> sub]

Str == Node("string", "", <<>>)
Ref(key) == Node("ref", key, <<>>)
Obj(properties) == Node("object", "", properties)
Placeholder == Obj(<<>>)                \* { type: "object", properties: {} }
Undefined == Node("undefined", "", <<>>)
TypeError == Node("TypeError", "", <<>>)
Overrun == Node("overrun", "", <<>>)    \* deeper than MaxDepth

Versions == { "first", "second" }
Keys == { "A", "B" }

\* the bodies of the definitions
DefinitionBodies ==
    { Str,
      Obj(<< Ref("A") >>),
      Obj(<< Ref("B"), Ref("B") >>),
      Node("array", "", << Ref("B") >>),
      Node("anyOf", "", << Ref("A"), Ref("B") >>),
      Node("allOf", "", << Ref("B"), Obj(<< Ref("A") >>) >>),
      Node("typeArray", "", << Ref("A") >>) }

\* the schemas handed to dereferenceSchema
Inputs ==
    { Undefined, Ref("A"), Ref("B"), Ref("X"),
      Obj(<< Ref("A"), Ref("A") >>),
      Node("oneOf", "", << Ref("B"), Ref("A") >>),
      Node("additional", "", << Ref("A") >>),
      Node("typeArray", "", << Ref("B") >>) }

\* subSchema.properties of a dereferenced allOf element
RECURSIVE propertiesOf(_)
propertiesOf(n) ==
    IF n.kind = "object" THEN n.sub
    ELSE IF n.kind = "expanded" THEN propertiesOf(n.sub[1])
    ELSE <<>>

RECURSIVE mergedProperties(_)
mergedProperties(nodes) ==
    IF nodes = <<>> THEN <<>>
    ELSE propertiesOf(Head(nodes)) \o mergedProperties(Tail(nodes))

\* a version whose $ref branch never consults visited
RECURSIVE dereferenceSchema_noVisited(_, _, _, _, _)
RECURSIVE dereferenceAll_noVisited(_, _, _, _, _)
dereferenceSchema_noVisited(version, schema, definitions, visited, depth) ==
    IF depth > MaxDepth THEN [node |-> Overrun, visited |-> visited]
    ELSE IF schema.kind = "ref"
    THEN IF schema.key \notin DOMAIN definitions
         THEN [node |-> Undefined, visited |-> visited]
         ELSE LET r == dereferenceSchema_noVisited(version,
                            definitions[schema.key], definitions,
                            visited \cup {schema.key}, depth + 1)
              IN [node |-> Node("expanded", schema.key, << r.node >>),
                  visited |-> r.visited]
    ELSE LET r == dereferenceAll_noVisited(version, schema.sub, definitions,
                                          visited, depth + 1)
         IN [node |-> Node(schema.kind, schema.key, r.nodes),
             visited |-> r.visited]

dereferenceAll_noVisited(version, schemas, definitions, visited, depth) ==
    IF schemas = <<>> THEN [nodes |-> <<>>, visited |-> visited]
    ELSE LET h == dereferenceSchema_noVisited(version, Head(schemas),
                                             definitions, visited, depth)
             t == dereferenceAll_noVisited(version, Tail(schemas),
                                          definitions, h.visited, depth)
         IN [nodes |-> << h.node >> \o t.nodes, visited |-> t.visited]

\* dereferenceSchema(schema, definitions, visited): the schema it returns
\* and the visited set as the call leaves it (the set is shared by all the
\* calls of one traversal)
RECURSIVE dereferenceSchema(_, _, _, _, _)
RECURSIVE dereferenceAll(_, _, _, _, _)
dereferenceSchema(version, schema, definitions, visited, depth) ==
    IF depth > MaxDepth THEN [node |-> Overrun, visited |-> visited]
    ELSE IF schema.kind \in {"undefined", "TypeError", "overrun"}
    THEN [node |-> schema, visited |-> visited]
    ELSE IF schema.kind = "typeArray"
    THEN [node |-> Node("anyOfTypes", schema.key, schema.sub),
          visited |-> visited]
    ELSE IF schema.kind = "ref"
    THEN IF schema.key \in visited
         THEN [node |-> Placeholder, visited |-> visited]
         ELSE IF schema.key \notin DOMAIN definitions
         THEN [node |-> IF version = "first" THEN TypeError
                        ELSE Node("expanded", schema.key, << Undefined >>),
               visited |-> visited \cup {schema.key}]
         ELSE LET r == dereferenceSchema(version, definitions[schema.key],
                                         definitions,
                                         visited \cup {schema.key}, depth + 1)
              IN [node |-> Node("expanded", schema.key, << r.node >>),
                  visited |-> r.visited]
    ELSE IF schema.kind = "array" /\ version = "second"
    THEN [node |-> schema, visited |-> visited]
    ELSE LET r == dereferenceAll(version, schema.sub, definitions, visited,
                                 depth + 1)
         IN IF schema.kind = "allOf" /\ version = "first"
            THEN LET m == dereferenceAll(version, mergedProperties(r.nodes),
                                         definitions, r.visited, depth + 1)
                 IN [node |-> Obj(m.nodes), visited |-> m.visited]
            ELSE [node |-> Node(schema.kind, schema.key, r.nodes),
                  visited |-> r.visited]

dereferenceAll(version, schemas, definitions, visited, depth) ==
    IF schemas = <<>> THEN [nodes |-> <<>>, visited |-> visited]
    ELSE LET h == dereferenceSchema(version, Head(schemas), definitions,
                                    visited, depth)
             t == dereferenceAll(version, Tail(schemas), definitions,
                                 h.visited, depth)
         IN [nodes |-> << h.node >> \o t.nodes, visited |-> t.visited]

SchemaInit ==
    /\ sch \in { [ version |-> v, schema |-> i, definitions |-> d,
                    done |-> FALSE, result |-> Undefined ] :
                  v \in Versions, i \in Inputs, d \in [Keys -> DefinitionBodies] }
    /\ TransportIdle /\ FacadeIdle /\ ToolsIdle
    /\ MiddlewareIdle /\ FilterIdle /\ SocketIdle /\ RegistryIdle
    /\ DispatchIdle /\ ClientIdle

\* dereferenceSchema(schema, definitions)
Dereference ==
    /\ ~sch.done
    /\ sch' = [sch EXCEPT
                 !.done = TRUE,
                 !.result = dereferenceSchema(sch.version, sch.schema,
                                              sch.definitions, {}, 0).node]
    /\ UNCHANGED SchemaFrame

SchemaNext == Dereference

SpecSchema == SchemaInit /\ [][SchemaNext]_vars

\* no call of the traversal went deeper than MaxDepth
RECURSIVE Terminated(_)
Terminated(n) ==
    /\ n.kind # "overrun"
    /\ \A i \in DOMAIN n.sub : Terminated(n.sub[i])

\* no definition is expanded inside its own expansion
RECURSIVE NoReexpansion(_, _)
NoReexpansion(n, path) ==
    /\ n.kind = "expanded" => n.key \notin path
    /\ \A i \in DOMAIN n.sub :
          NoReexpansion(n.sub[i],
                        IF n.kind = "expanded" THEN path \cup {n.key}
                        ELSE path)

MaxChain == 3       \* interceptors before the terminal step

Behaviours == { "return", "next", "nextThenOwn", "nextTwice" }
Terminal == "terminal"

\* compose(...(options?.middlewares?.listTools ?? []), loadTools)
compose(interceptors) == interceptors \o << Terminal >>

\* how many times an element calls next()
nextCalls(behaviour) ==
    CASE behaviour = "next" -> 1
      [] behaviour = "nextThenOwn" -> 1
      [] behaviour = "nextTwice" -> 2
      [] OTHER -> 0

\* dispatch always runs the terminal step
dispatch_last(middlewares, i) == Len(middlewares)

\* dispatch(i): the element that is invoked (middlewares[i], or last when
\* there is none)
dispatch(middlewares, i) ==
    IF i \notin DOMAIN middlewares THEN Len(middlewares) ELSE i

Frame(i) == [i |-> i, calls |-> 0, val |-> 0]

\* the value a running element returns
returned(middlewares, frame) ==
    IF middlewares[frame.i] \in {"next", "nextTwice"} THEN frame.val
    ELSE frame.i

MiddlewareInit ==
    /\ mw \in { [ middlewares |-> compose(c), started |-> FALSE,
                   stack |-> <<>>, log |-> <<>>,
                   nexts |-> [ i \in 1..(MaxChain + 1) |-> 0 ],
                   result |-> 0 ] :
                 c \in SeqsUpTo(Behaviours, MaxChain) }
    /\ TransportIdle /\ FacadeIdle /\ ToolsIdle
    /\ SchemaIdle /\ FilterIdle /\ SocketIdle /\ RegistryIdle
    /\ DispatchIdle /\ ClientIdle

\* composedResolver(request): return dispatch(0)
ComposedResolver ==
    /\ ~mw.started
    /\ LET i == dispatch(mw.middlewares, 1)
       IN mw' = [mw EXCEPT !.started = TRUE,
                           !.stack = << Frame(i) >>,
                           !.log = << i >>]
    /\ UNCHANGED MiddlewareFrame

\* the running element calls next(): () => dispatch(i + 1)
CallNext ==
    /\ mw.stack # <<>>
    /\ LET d == Len(mw.stack)
           top == mw.stack[d]
           i == dispatch(mw.middlewares, top.i + 1)
       IN /\ top.calls < nextCalls(mw.middlewares[top.i])
          /\ mw' = [mw EXCEPT
                       !.stack = Append([mw.stack EXCEPT ![d].calls = @ + 1],
                                        Frame(i)),
                       !.log = Append(@, i),
                       !.nexts[top.i] = @ + 1]
    /\ UNCHANGED MiddlewareFrame

\* the running element returns to its caller
Return ==
    /\ mw.stack # <<>>
    /\ LET d == Len(mw.stack)
           top == mw.stack[d]
           v == returned(mw.middlewares, top)
       IN /\ top.calls = nextCalls(mw.middlewares[top.i])
          /\ mw' = IF d = 1
                   THEN [mw EXCEPT !.stack = <<>>, !.result = v]
                   ELSE [mw EXCEPT
                           !.stack = [SubSeq(mw.stack, 1, d - 1)
                                        EXCEPT ![d - 1].val = v]]
    /\ UNCHANGED MiddlewareFrame

MiddlewareNext == ComposedResolver \/ CallNext \/ Return

SpecMiddleware == MiddlewareInit /\ [][MiddlewareNext]_vars

\* how often element i has been invoked
Invocations(i) == Cardinality({ k \in DOMAIN mw.log : mw.log[k] = i })

\* the value element i returns, from what the elements do
RECURSIVE ValueOf(_, _)
ValueOf(middlewares, i) ==
    IF middlewares[i] \in {"next", "nextTwice"}
    THEN ValueOf(middlewares, i + 1)
    ELSE i

\* C15: in a chain [m1, ..., mn, terminal] a request invokes m1 first; the
\* element after mi is invoked only when mi calls next() (once per call);
\* below an mi that returns without calling next() nothing is invoked, the
\* terminal step included; and the composed call returns what m1 returns.
C15_ChainOrder ==
    /\ mw.log # <<>> => mw.log[1] = 1
    /\ \A i \in DOMAIN mw.middlewares :
          /\ i > 1 => Invocations(i) = mw.nexts[i - 1]
          /\ mw.middlewares[i] = "return" =>
                \A j \in DOMAIN mw.middlewares : j > i => Invocations(j) = 0
    /\ mw.result # 0 => mw.result = ValueOf(mw.middlewares, 1)

C15_Witness ==
    /\ mw.middlewares = << "next", "return", "next", Terminal >>
    /\ mw.log = << 1, 2 >>
    /\ mw.result = 2

(***************************************************************************)
(* matchesPattern and mcpServerTools (src/unnamed/part_007).  Tool names   *)
(* and pattern strings are sequences of characters; a pattern is a string  *)
(* or an object whose fields startsWith, endsWith and matches are present  *)
(* (Some) or absent (None).                                                *)
(***************************************************************************)
MaxPatterns == 2    \* patterns in filters.include and in filters.exclude

\* String.prototype.startsWith / endsWith
startsWith(s, prefix) ==
    Len(prefix) <= Len(s) /\ SubSeq(s, 1, Len(prefix)) = prefix
endsWith(s, suffix) ==
    Len(suffix) <= Len(s)
        /\ SubSeq(s, Len(s) - Len(suffix) + 1, Len(s)) = suffix

\* new RegExp(`^${regexPattern}$`).test(toolName), "*" turned into ".*"
RECURSIVE test(_, _)
test(glob, s) ==
    IF glob = <<>> THEN s = <<>>
    ELSE IF Head(glob) = "*"
    THEN test(Tail(glob), s) \/ (s # <<>> /\ test(glob, Tail(s)))
    ELSE s # <<>> /\ Head(s) = Head(glob) /\ test(Tail(glob), Tail(s))

Literal(s) ==
    [isString |-> TRUE, string |-> s,
     startsWith |-> None, endsWith |-> None, matches |-> None]
ObjectPattern(sw, ew, m) ==
    [isString |-> FALSE, string |-> <<>>,
     startsWith |-> sw, endsWith |-> ew, matches |-> m]

\* "startsWith" in pattern && pattern.startsWith
truthy(field) == field.defined /\ field.value # <<>>

matchesPattern(toolName, pattern) ==
    IF pattern.isString THEN toolName = pattern.string
    ELSE IF truthy(pattern.startsWith)
    THEN startsWith(toolName, pattern.startsWith.value)
    ELSE IF truthy(pattern.endsWith)
    THEN endsWith(toolName, pattern.endsWith.value)
    ELSE IF truthy(pattern.matches)
    THEN test(pattern.matches.value, toolName)
    ELSE FALSE

ToolNames ==
    { << "a" >>, << "a", "b" >>, << "b", "a" >>, << "b" >> }

\* what siteTools / _mcpServerTools return (the keys of the record)
ToolSets == { {}, { << "a", "b" >>, << "b" >> }, ToolNames }

Patterns ==
    { Literal(<< "a", "b" >>),
      ObjectPattern(Some(<< "a" >>), None, None),
      ObjectPattern(Some(<<>>), None, None),
      ObjectPattern(None, Some(<< "b" >>), None),
      ObjectPattern(None, Some(<<>>), None),
      ObjectPattern(None, None, Some(<< "a", "*" >>)),
      ObjectPattern(Some(<< "a" >>), Some(<< "b" >>), None),
      ObjectPattern(None, None, None) }

some(patterns, toolName) ==
    \E i \in DOMAIN patterns : matchesPattern(toolName, patterns[i])

\* mcpServerTools(mcpServer): the names of the returned tools, and mtools
\* after the call (selectedTools is mtools itself when include is empty)
mcpServerTools(mtools, include, exclude) ==
    LET selected == IF Len(include) > 0
                    THEN { t \in mtools : some(include, t) }
                    ELSE mtools
        result == IF Len(exclude) > 0
                  THEN { t \in selected : ~some(exclude, t) }
                  ELSE selected
    IN [selectedTools |-> result,
        mtools |-> IF Len(include) > 0 THEN mtools ELSE result]

FilterInit ==
    /\ pat \in { [ available |-> m, mtools |-> m,
                    include |-> i, exclude |-> x,
                    done |-> FALSE, selectedTools |-> {} ] :
                  m \in ToolSets,
                  i \in SeqsUpTo(Patterns, MaxPatterns),
                  x \in SeqsUpTo(Patterns, MaxPatterns) }
    /\ TransportIdle /\ FacadeIdle /\ ToolsIdle
    /\ SchemaIdle /\ MiddlewareIdle /\ SocketIdle /\ RegistryIdle
    /\ DispatchIdle /\ ClientIdle

\* mcpServerTools(mcpServer)
McpServerTools ==
    /\ ~pat.done
    /\ LET r == mcpServerTools(pat.mtools, pat.include, pat.exclude)
       IN pat' = [pat EXCEPT !.done = TRUE,
                             !.selectedTools = r.selectedTools,
                             !.mtools = r.mtools]
    /\ UNCHANGED FilterFrame

FilterNext == McpServerTools

SpecFilter == FilterInit /\ [][FilterNext]_vars

\* a name matches a pattern: a string by equality, startsWith by prefix,
\* endsWith by suffix, matches as a glob
PatternMatches(toolName, pattern) ==
    IF pattern.isString THEN toolName = pattern.string
    ELSE IF pattern.startsWith.defined
    THEN startsWith(toolName, pattern.startsWith.value)
    ELSE IF pattern.endsWith.defined
    THEN endsWith(toolName, pattern.endsWith.value)
    ELSE IF pattern.matches.defined
    THEN test(pattern.matches.value, toolName)
    ELSE FALSE

MatchesAny(toolName, patterns) ==
    \E i \in DOMAIN patterns : PatternMatches(toolName, patterns[i])

\* C16: mcpServerTools returns exactly the tools whose name matches at least
\* one include pattern (every tool when include is absent or empty) and no
\* exclude pattern, a string matching by equality, startsWith by prefix and
\* endsWith by suffix.
C16_FilterExact ==
    pat.done =>
        pat.selectedTools =
            { t \in pat.available :
                /\ pat.include = <<>> \/ MatchesAny(t, pat.include)
                /\ ~MatchesAny(t, pat.exclude) }

(***************************************************************************)
(* Closing and sending on the HTTP server transports                       *)
(***************************************************************************)
\* C17: across any sequence of close() calls, DELETE requests and stream
\* cancellations on one HTTP server transport, the close callback is invoked
\* at most once: a close after the first one does not fire it again.
C17_CloseCallbackOnce == tr.oncloseCalls <= 1

\* the step handed its message to a peer: an event on a stream or the
\* response of a waiting exchange
Delivered(message) ==
    \/ \E s \in DOMAIN tr.streams :
          /\ s \in DOMAIN tr'.streams
          /\ tr'.streams[s].events = Append(tr.streams[s].events, message)
    \/ \E x \in DOMAIN tr.exchanges :
          /\ x \in DOMAIN tr'.exchanges
          /\ tr.exchanges[x].pc # "returned"
          /\ tr'.exchanges[x].pc = "returned"
          /\ tr'.exchanges[x].resp.body = message

\* C19: on the HTTP server transports a send() that returns normally has
\* delivered its message to a peer; after close(), or with no exchange and
\* no stream open, it fails with NotConnected instead.
C19_SendDeliversOrFails ==
    [][last'.op = "send" => Delivered(last'.msg)]_vars

(***************************************************************************)
(* WebSocketServerTransport (src/unnamed/part_014).  A socket is the       *)
(* platform's WebSocket: its readyState, whether this transport's handlers *)
(* are installed on it, and the text frames written to it.  The handlers   *)
(* stay on the socket object after the transport drops its reference.      *)
(***************************************************************************)
MaxSockets == 2     \* sockets that can be handed to acceptWebSocket
MaxFrames == 1      \* frames written to one socket that are followed
MaxCallbacks == 2   \* calls of one observer that are followed

Sockets == 1..MaxSockets

NewSocket == [readyState |-> "connecting", handlers |-> FALSE, frames |-> 0]

WebSocketServerTransport ==
    [ _socket |-> undefined, _connected |-> FALSE,
      sockets |-> [ s \in Sockets |-> NewSocket ],
      oncloseCalls |-> 0, onerrorCalls |-> 0, onmessageCalls |-> 0,
      arrived |-> 0,        \* frames that arrived, numbered in arrival order
      delivered |-> <<>>,   \* numbers of the frames passed to onmessage
      op |-> "new", outcome |-> "ok" ]

\* what a method call leaves behind: the transport and how the call ended
Ended(t, op, outcome) == [t EXCEPT !.op = op, !.outcome = outcome]

\* outcomes of socket.send(data) by readyState: written when open, an
\* InvalidStateError while connecting, and on a closing or closed socket
\* either that error or a silent discard, by platform
socketSend(readyState) ==
    CASE readyState = "open" -> { "ok" }
      [] readyState = "connecting" -> { "InvalidStateError" }
      [] OTHER -> { "InvalidStateError", "discarded" }

\* socket.close()
socketClose(socket) ==
    IF socket.readyState \in {"connecting", "open"}
    THEN [socket EXCEPT !.readyState = "closing"]
    ELSE socket

acceptWebSocket(t, s) ==
    IF t._socket # undefined
    THEN Ended(t, "acceptWebSocket", "AlreadyActive")
    ELSE Ended([t EXCEPT !._socket = s, !.sockets[s].handlers = TRUE],
               "acceptWebSocket", "ok")

WebSocket_start(t) ==
    IF t._socket = undefined
    THEN Ended(t, "start", "NotEstablished")
    ELSE Ended([t EXCEPT !._connected = TRUE], "start", "ok")

WebSocket_close(t) ==
    LET t1 == IF t._socket # undefined
              THEN [t EXCEPT !.sockets[t._socket] = socketClose(@)]
              ELSE t
    IN Ended([t1 EXCEPT !._socket = undefined, !._connected = FALSE,
                        !.oncloseCalls = @ + 1],
             "close", "ok")

\* send(message), with the outcome socket.send produces
WebSocket_send(t, outcome) ==
    IF ~t._connected \/ t._socket = undefined
    THEN Ended(t, "send", "NotConnected")
    ELSE Ended(IF outcome = "ok"
               THEN [t EXCEPT !.sockets[t._socket].frames = @ + 1]
               ELSE t,
               "send", outcome)

\* this._socket.onclose
socket_onclose(t) ==
    Ended([t EXCEPT !._connected = FALSE, !.oncloseCalls = @ + 1],
          "socket.onclose", "ok")

\* this._socket.onerror
socket_onerror(t) ==
    Ended([t EXCEPT !.onerrorCalls = @ + 1], "socket.onerror", "ok")

\* an onmessage handler that gives the connection up on a bad frame
socket_onmessage_disconnecting(t, valid) ==
    Ended(IF valid
          THEN [t EXCEPT !.onmessageCalls = @ + 1, !.arrived = @ + 1,
                         !.delivered = Append(@, t.arrived + 1)]
          ELSE [t EXCEPT !.onerrorCalls = @ + 1, !.arrived = @ + 1,
                         !._connected = FALSE],
          "socket.onmessage", IF valid THEN "onmessage" ELSE "onerror")

\* this._socket.onmessage: a frame that parses as a JSON-RPC message or not;
\* the outcome names the observer the frame went to
socket_onmessage(t, valid) ==
    Ended(IF valid
          THEN [t EXCEPT !.onmessageCalls = @ + 1, !.arrived = @ + 1,
                         !.delivered = Append(@, t.arrived + 1)]
          ELSE [t EXCEPT !.onerrorCalls = @ + 1, !.arrived = @ + 1],
          "socket.onmessage", IF valid THEN "onmessage" ELSE "onerror")

SocketWithinBounds(t) ==
    /\ t.oncloseCalls <= MaxCallbacks
    /\ t.onerrorCalls <= MaxCallbacks
    /\ t.onmessageCalls <= MaxCallbacks
    /\ \A s \in Sockets : t.sockets[s].frames <= MaxFrames

SocketInit ==
    /\ ws = WebSocketServerTransport
    /\ TransportIdle /\ FacadeIdle /\ ToolsIdle
    /\ SchemaIdle /\ MiddlewareIdle /\ FilterIdle /\ RegistryIdle
    /\ DispatchIdle /\ ClientIdle

AcceptWebSocket(s) ==
    /\ ws' = acceptWebSocket(ws, s)
    /\ UNCHANGED SocketFrame

WebSocketStart ==
    /\ ws' = WebSocket_start(ws)
    /\ UNCHANGED SocketFrame

WebSocketClose ==
    /\ SocketWithinBounds(WebSocket_close(ws))
    /\ ws' = WebSocket_close(ws)
    /\ UNCHANGED SocketFrame

WebSocketSend ==
    /\ \E outcome \in IF ws._socket = undefined THEN { "ok" }
                       ELSE socketSend(ws.sockets[ws._socket].readyState) :
          /\ SocketWithinBounds(WebSocket_send(ws, outcome))
          /\ ws' = WebSocket_send(ws, outcome)
    /\ UNCHANGED SocketFrame

\* the handshake completes
SocketOpen(s) ==
    /\ ws.sockets[s].handlers
    /\ ws.sockets[s].readyState = "connecting"
    /\ ws' = Ended([ws EXCEPT !.sockets[s].readyState = "open"],
                   "socket.onopen", "ok")
    /\ UNCHANGED SocketFrame

\* the socket's close event
SocketCloseEvent(s) ==
    /\ ws.sockets[s].handlers
    /\ ws.sockets[s].readyState # "closed"
    /\ LET t == socket_onclose([ws EXCEPT !.sockets[s].readyState = "closed"])
       IN /\ SocketWithinBounds(t)
          /\ ws' = t
    /\ UNCHANGED SocketFrame

\* the socket's error event
SocketErrorEvent(s) ==
    /\ ws.sockets[s].handlers
    /\ ws.sockets[s].readyState # "closed"
    /\ SocketWithinBounds(socket_onerror(ws))
    /\ ws' = socket_onerror(ws)
    /\ UNCHANGED SocketFrame

\* a frame arrives on the socket
SocketMessageEvent(s, valid) ==
    /\ ws.sockets[s].handlers
    /\ ws.sockets[s].readyState \in {"open", "closing"}
    /\ SocketWithinBounds(socket_onmessage(ws, valid))
    /\ ws' = socket_onmessage(ws, valid)
    /\ UNCHANGED SocketFrame

SocketNext ==
    \/ \E s \in Sockets : AcceptWebSocket(s)
    \/ WebSocketStart
    \/ WebSocketClose
    \/ WebSocketSend
    \/ \E s \in Sockets : SocketOpen(s)
    \/ \E s \in Sockets : SocketCloseEvent(s)
    \/ \E s \in Sockets : SocketErrorEvent(s)
    \/ \E s \in Sockets, valid \in BOOLEAN : SocketMessageEvent(s, valid)

SpecSocket == SocketInit /\ [][SocketNext]_vars

\* the closure of socket s has been reported: close() or the socket's close
\* event has run for it
Reported(s) ==
    /\ ws.sockets[s].handlers
    /\ ws.sockets[s].readyState \in {"closing", "closed"}

\* C18: across any interleaving of close() calls and the socket's own close
\* event for one connection, the close callback is invoked once: after the
\* closure has been reported, no later close() or close event fires it again.
C18_SocketCloseReportedOnce ==
    [][(Reported(1) /\ \A s \in Sockets : s # 1 => ~ws'.sockets[s].handlers)
          => ws'.oncloseCalls = ws.oncloseCalls]_vars

\* C20: a send() invoked before start(), after close(), or after the
\* socket's close event fails with the not-connected error and writes
\* nothing; a frame is written only while the transport is started and the
\* socket has not closed.
C20_SendNeedsLiveSocket ==
    [][ws'.op = "send" =>
          /\ ( \/ ~ws._connected
               \/ ws._socket = undefined
               \/ ws.sockets[ws._socket].readyState = "closed" ) =>
                 /\ ws'.outcome = "NotConnected"
                 /\ ws'.sockets = ws.sockets
          /\ ws'.sockets # ws.sockets =>
                 /\ ws._connected
                 /\ ws._socket # undefined
                 /\ ws.sockets[ws._socket].readyState # "closed"]_vars

\* the response of some exchange has been committed by a send() call
Committed ==
    \E x \in Exchanges :
        x.pc = "returned" /\ x.resp.status = 200 /\ x.resp.body # NoMsg

\* no exchange waits for a response and no stream is attached
NothingOpen ==
    /\ tr.responseResolver = undefined /\ tr._responseResolver = undefined
    /\ tr.sseController = undefined /\ tr._controller = undefined

\* C21: in immediate-JSON mode, once the first send() has committed the
\* response of the exchange, a further send() does not return successfully:
\* no send() call completes while the only exchange is already answered.
C21_SecondSendIsError ==
    [][(Committed /\ NothingOpen) => last'.op # "send"]_vars

(***************************************************************************)
(* Binding and inbound frames on the WebSocket transport                   *)
(***************************************************************************)
\* the sockets an acceptWebSocket call has bound to the transport
Bound == { s \in Sockets : ws.sockets[s].handlers }

\* C22: over the lifetime of one WebSocketServerTransport, whatever start(),
\* close() and socket events occur in between, at most one acceptWebSocket
\* call binds a socket.
C22_BindsOnce == Cardinality(Bound) <= 1

\* C23: an inbound frame that is not valid JSON or fails validation goes to
\* onerror and not to onmessage, leaves the socket and the connected state
\* as they were, and a valid frame arriving next is still delivered to
\* onmessage.
C23_BadFrameKeepsConnection ==
    [][(ws'.op = "socket.onmessage" /\ ws'.outcome = "onerror") =>
          /\ ws'.onerrorCalls = ws.onerrorCalls + 1
          /\ ws'.onmessageCalls = ws.onmessageCalls
          /\ ws'.sockets = ws.sockets
          /\ ws'._socket = ws._socket
          /\ ws'._connected = ws._connected
          /\ socket_onmessage(ws', TRUE).onmessageCalls
                = ws'.onmessageCalls + 1]_vars

C23_Witness ==
    /\ ws.op = "socket.onmessage" /\ ws.outcome = "onerror"
    /\ ws.onerrorCalls = 1 /\ ws.onmessageCalls = 1
    /\ ws._connected /\ ws._socket = 1
    /\ ws.sockets[1].readyState = "open"

(***************************************************************************)
(* Requests on a session of the HTTP server transport                      *)
(***************************************************************************)
\* an event stream handed out by a GET is open
GetStreamOpen ==
    \E s \in DOMAIN tr.streams :
        tr.streams[s].state = "open" /\ tr.streams[s].by = "GET"

\* GET requests that pass the header checks of the session
SessionGets ==
    { r \in HttpRequests :
        /\ r.method = "GET"
        /\ ("application/json" \in r.accept \/ "text/event-stream" \in r.accept)
        /\ tr.sessionIdGenerator =>
              (tr.initialized /\ r.session = tr.sessionId) }

\* C24: while the session's GET event stream is open, another GET is
\* rejected with HTTP 409 (code -32000); the open stream stays as it is and
\* the stream send() writes to does not change.
C24_SecondGetConflict ==
    (tr.cls = "HttpServerTransport" /\ GetStreamOpen) =>
        \A request \in SessionGets :
            LET r == handleMessage(tr, request, "async") IN
                /\ r.resp.status = 409
                /\ r.resp.code = ServerError
                /\ r.t.streams = tr.streams
                /\ r.t.sseController = tr.sseController

\* requests other than initialize whose headers are otherwise in order
NonInitializeRequests ==
    { r \in HttpRequests :
        /\ r.method \in {"POST", "GET", "DELETE"}
        /\ "application/json" \in r.accept
        /\ r.method = "POST" =>
              (r.contentType = "application/json"
                 /\ r.body = Single(ReqToolsCall)) }

\* session tracking is on and a session is live
SessionLive ==
    /\ tr.cls = "HttpServerTransport"
    /\ tr.sessionIdGenerator /\ tr.initialized /\ tr.sessionId # undefined

\* C25: with session tracking enabled, a non-initialize request (POST, GET
\* or DELETE) is rejected with HTTP 400 when it has no mcp-session-id header
\* and with HTTP 404 (code -32001) when its header is not the live session
\* id; nothing is delivered to onmessage in either case.
C25_SessionHeaderChecked ==
    SessionLive =>
        \A request \in NonInitializeRequests, cb \in Callbacks :
            LET r == handleMessage(tr, request, cb) IN
                /\ request.session = 0 =>
                      (r.resp.status = 400 /\ r.t.delivered = <<>>)
                /\ request.session \notin {0, tr.sessionId} =>
                      /\ r.resp.status = 404
                      /\ r.resp.code = SessionNotFound
                      /\ r.t.delivered = <<>>

\* C26: a DELETE destroys the session: once it has been processed, a
\* non-initialize request that carries the old session id is rejected as
\* session-not-found and is not delivered to onmessage.
C26_DeleteDestroysSession ==
    ( /\ tr.cls = "HttpServerTransport" /\ tr.sessionIdGenerator
      /\ last.op = "handleMessage" /\ last.request.method = "DELETE"
      /\ last.resp.status = 200 ) =>
        \A request \in NonInitializeRequests, cb \in Callbacks :
            request.session = last.request.session =>
                LET r == handleMessage(tr, request, cb) IN
                    /\ r.resp.status = 404
                    /\ r.resp.code = SessionNotFound
                    /\ r.t.delivered = <<>>

(***************************************************************************)
(* The session registry of the server facade: the transports map of       *)
(* setupMcpServer, the /mcp/sse route that registers an SSE transport and  *)
(* the messages endpoint that looks one up.  The facade exists in two      *)
(* versions: src/mcp/server.ts (and the first file of part_010) serves a   *)
(* POST without sessionId as a stateless exchange; part_012 (and the       *)
(* second file of part_010) answers it 400.  The SSE transport class comes *)
(* from ./sse.ts; its close and handlePostMessage follow the               *)
(* specification's description of the SSE transport.  connect is the       *)
(* protocol library's: it installs the server's close handler on the       *)
(* transport, either after the handler already assigned ("chained") or in  *)
(* its place ("replaced"); the sources do not fix which, so both are       *)
(* taken.                                                                  *)
(***************************************************************************)
MaxSessions == 2
MaxPosts == 2

Sessions == 1 .. MaxSessions
\* query parameter values: 0 is an absent sessionId, MaxSessions + 1 an id
\* that no transport ever had
SessionQueries == 0 .. (MaxSessions + 1)
FacadeFiles == {"server.ts", "part_012"}
Closings == {"chained", "replaced"}

NoTransport == [ state |-> "none", onclose |-> {}, received |-> 0 ]

\* const transports = new Map<string, SSEServerTransport>()
transports(file, closing) ==
    [ file |-> file,
      closing |-> closing,
      keys |-> {},
      transport |-> [ s \in Sessions |-> NoTransport ],
      created |-> 0,
      op |-> "none",
      query |-> 0,
      status |-> 0 ]

Routed(r, op, query, status) ==
    [r EXCEPT !.op = op, !.query = query, !.status = status]

\* new SSEServerTransport(endpoint): a transport with a fresh sessionId
SSEServerTransport(r, s) ==
    [r EXCEPT !.transport[s] = [NoTransport EXCEPT !.state = "new"]]

\* transports.set(transport.sessionId, transport);
\* transport.onclose = () => { transports.delete(transport.sessionId) }
register(r, s) ==
    [r EXCEPT !.keys = @ \cup {s},
              !.transport[s].onclose = {"unregister"}]

\* transport.createSSEResponse(): the event stream of the session opens
createSSEResponse(r, s) == [r EXCEPT !.transport[s].state = "open"]

\* mcp.server.connect(transport): the server's close handler is installed
server_connect(r, s) ==
    [r EXCEPT !.transport[s].onclose =
                    IF r.closing = "chained"
                    THEN @ \cup {"server"} ELSE {"server"}]

\* GET /mcp/sse
sseRoute(r, s) ==
    Routed(server_connect(createSSEResponse(register(
               SSEServerTransport(r, s), s), s), s),
           "sse", s, 200)

\* SSEServerTransport.close, also run when the client disconnects: the
\* stream ends and the transport's onclose handler runs
SSE_close(r, s) ==
    LET closed == [r EXCEPT !.transport[s].state = "closed"] IN
    IF "unregister" \in r.transport[s].onclose
    THEN [closed EXCEPT !.keys = @ \ {s}]
    ELSE closed

\* SSEServerTransport.handlePostMessage: one message is delivered to
\* onmessage and the POST is accepted; a transport whose stream has ended
\* delivers nothing
handlePostMessage(r, s) ==
    IF r.transport[s].state = "open"
    THEN Routed([r EXCEPT !.transport[s].received = @ + 1], "post", s, 202)
    ELSE Routed(r, "post", s, 500)

\* the stateless exchange of server.ts: new HttpServerTransport(), connect,
\* handleMessage, close
statelessExchange(r) ==
    Routed([r EXCEPT !.created = @ + 1], "post", 0, 200)

\* a messages endpoint that serves any POST it cannot address to a session
\* as a stateless exchange
messagesRoute_fallback(r, sessionId) ==
    IF sessionId = 0 /\ r.file # "server.ts"
    THEN Routed(r, "post", sessionId, 400)
    ELSE IF sessionId \notin r.keys
         THEN statelessExchange(r)
         ELSE handlePostMessage(r, sessionId)

\* POST to the messages endpoint with query parameter sessionId
messagesRoute(r, sessionId) ==
    IF sessionId = 0
    THEN IF r.file = "server.ts"
         THEN statelessExchange(r)
         ELSE Routed(r, "post", sessionId, 400)
    ELSE IF sessionId \notin r.keys
         THEN Routed(r, "post", sessionId, 404)
         ELSE handlePostMessage(r, sessionId)

RegistryWithinBounds(r) ==
    /\ r.created <= MaxPosts
    /\ \A s \in Sessions : r.transport[s].received <= MaxPosts

RegistryInit ==
    /\ sse \in { transports(f, g) : f \in FacadeFiles, g \in Closings }
    /\ DispatchIdle /\ ClientIdle
    /\ TransportIdle /\ FacadeIdle /\ ToolsIdle
    /\ SchemaIdle /\ MiddlewareIdle /\ FilterIdle /\ SocketIdle

\* a client opens the legacy event stream
SseGet(s) ==
    /\ sse.transport[s].state = "none"
    /\ \A u \in Sessions : u < s => sse.transport[u].state # "none"
    /\ sse' = sseRoute(sse, s)
    /\ UNCHANGED RegistryFrame

\* a client posts to the messages endpoint
MessagesPost(sessionId) ==
    /\ RegistryWithinBounds(messagesRoute(sse, sessionId))
    /\ sse' = messagesRoute(sse, sessionId)
    /\ UNCHANGED RegistryFrame

\* the server closes a session's transport
SseClose(s) ==
    /\ sse.transport[s].state = "open"
    /\ sse' = Routed(SSE_close(sse, s), "close", s, 0)
    /\ UNCHANGED RegistryFrame

\* the client of a session goes away
SseDisconnect(s) ==
    /\ sse.transport[s].state = "open"
    /\ sse' = Routed(SSE_close(sse, s), "disconnect", s, 0)
    /\ UNCHANGED RegistryFrame

RegistryNext ==
    \/ \E s \in Sessions : SseGet(s)
    \/ \E q \in SessionQueries : MessagesPost(q)
    \/ \E s \in Sessions : SseClose(s)
    \/ \E s \in Sessions : SseDisconnect(s)

SpecRegistry == RegistryInit /\ [][RegistryNext]_vars

UnknownQueries == { q \in SessionQueries : q # 0 /\ q \notin sse.keys }

Untouched(r) ==
    /\ r.keys = sse.keys
    /\ r.transport = sse.transport
    /\ r.created = sse.created

\* C28 as stated: a POST whose sessionId is not in the registry is answered
\* 404 and one without sessionId 400; in both cases nothing is delivered,
\* no transport is created and the registry is unchanged.
C28_UnknownOrAbsentRefused ==
    /\ \A q \in UnknownQueries :
            LET r == messagesRoute(sse, q) IN r.status = 404 /\ Untouched(r)
    /\ LET r == messagesRoute(sse, 0) IN r.status = 400 /\ Untouched(r)

\* C28, amended: a POST whose sessionId is not in the registry is answered
\* 404, and one without sessionId is answered 400 by the facade of part_012;
\* in both cases nothing is delivered, no transport is created and the
\* registry is unchanged.  The facade of src/mcp/server.ts serves a POST
\* without sessionId as a stateless exchange on a new transport.
C28_UnknownRefused ==
    /\ \A q \in UnknownQueries :
            LET r == messagesRoute(sse, q) IN r.status = 404 /\ Untouched(r)
    /\ LET r == messagesRoute(sse, 0) IN
            IF sse.file = "part_012"
            THEN r.status = 400 /\ Untouched(r)
            ELSE r.status = 200 /\ r.created = sse.created + 1
                 /\ r.keys = sse.keys /\ r.transport = sse.transport

C28_Witness ==
    /\ sse.op = "post" /\ sse.status = 404 /\ sse.query = 1
    /\ sse.transport[1].state = "closed" /\ sse.keys = {2}
    /\ sse.transport[2].received = 1

\* POSTs with proper headers whose payload is an initialize request batched
\* with one other valid message, in either order
InitializeBatches ==
    { HttpRequest("POST", {"application/json"}, "application/json", h,
                  Array(b)) :
        h \in SessionHeaders,
        b \in { <<i, m>> : i \in {ReqInitialize, ReqPrefixedInitialize},
                           m \in ValidElems }
              \cup
              { <<m, i>> : i \in {ReqInitialize, ReqPrefixedInitialize},
                           m \in ValidElems } }

\* C29: a POST payload holding an initialize request together with another
\* message is rejected with InvalidRequest and HTTP 400; none of its
\* messages is delivered, and initialized and sessionId are unchanged.
C29_BatchedInitializeRejected ==
    tr.cls = "HttpServerTransport" =>
        \A request \in InitializeBatches, cb \in Callbacks :
            LET r == handleMessage(tr, request, cb) IN
                /\ r.resp.status = 400
                /\ r.resp.code = InvalidRequest
                /\ r.t.delivered = tr.delivered
                /\ r.t.initialized = tr.initialized
                /\ r.t.sessionId = tr.sessionId

\* POSTs whose Content-Type does not include application/json
WrongContentTypePosts ==
    { r \in HttpRequests :
        r.method = "POST" /\ r.contentType # "application/json" }

Acceptable(request) ==
    "application/json" \in request.accept
        \/ "text/event-stream" \in request.accept

\* C30 as stated: every POST whose Content-Type does not include
\* application/json is answered 415 with code -32000, and its body is
\* neither parsed nor delivered.
C30_WrongContentType415 ==
    tr.cls = "HttpServerTransport" =>
        \A request \in WrongContentTypePosts, cb \in Callbacks :
            LET r == handleMessage(tr, request, cb) IN
                /\ r.resp.status = 415
                /\ r.resp.code = ServerError
                /\ r.t = tr

\* C30, amended: a POST whose Content-Type does not include application/json
\* is answered 415 with code -32000 when its Accept header includes
\* application/json or text/event-stream, and 406 with code -32000 when it
\* does not; either way the body is neither parsed nor delivered: the
\* transport is left as it was and the answer does not depend on the body.
C30_WrongContentTypeRefused ==
    tr.cls = "HttpServerTransport" =>
        \A request \in WrongContentTypePosts, cb \in Callbacks :
            LET r == handleMessage(tr, request, cb) IN
                /\ r.resp.status = IF Acceptable(request) THEN 415 ELSE 406
                /\ r.resp.code = ServerError
                /\ r.t = tr
                /\ \A b \in Bodies :
                        handleMessage(tr, [request EXCEPT !.body = b], cb).resp
                            = r.resp

C30_Witness ==
    /\ tr.cls = "HttpServerTransport"
    /\ last.op = "handleMessage"
    /\ last.request \in WrongContentTypePosts
    /\ Acceptable(last.request)
    /\ last.request.body = Single(ReqToolsCall)
    /\ last.resp.status = 415
    /\ tr.initialized

\* handleMessage of the transport's class
handleMessageOf(t, request, cb) ==
    IF t.cls = "HttpServerTransport"
    THEN handleMessage(t, request, cb)
    ELSE Stateless_handleMessage(t, request, cb)

\* POSTs with proper headers carrying one tools/call request
CallPosts ==
    { r \in HttpRequests : GoodPost(r) /\ r.body = Single(ReqToolsCall) }

\* C31: when onmessage calls send before it returns, the message sent is
\* the response of the POST being handled: the JSON body handleMessage
\* returns (which therefore does not stay pending), or an event on the
\* stream that handleMessage returns.
C31_SyncSendAnswersExchange ==
    \A request \in CallPosts :
        LET r == handleMessageOf(tr, request, "sync") IN
        r.t.delivered = Append(tr.delivered, ReqToolsCall) =>
            \/ /\ r.resp.status = 200
               /\ r.resp.stream # undefined
               /\ r.t.streams[r.resp.stream].events
                    = <<Response(ReqToolsCall.id)>>
            \/ /\ Len(r.t.exchanges) = Len(tr.exchanges) + 1
               /\ r.t.exchanges[Len(r.t.exchanges)].pc = "returned"
               /\ r.t.exchanges[Len(r.t.exchanges)].resp.body
                    = Response(ReqToolsCall.id)

\* the names of the tools the schema source holds now
CatalogNames(r) == { loadTools(r).tools[i].name : i \in DOMAIN loadTools(r).tools }

\* toolNames has been created by a loadTools that still awaits deco.meta()
FirstDerivationPending(r) ==
    /\ ~r.toolNames.isNull
    /\ r.toolNames.map = EmptyMap
    /\ (r.loading > 0 \/ r.calling # {})

\* C32: a tools/call that names a tool of the catalog does not fail with
\* "Tool not found" while the first derivation is under way (the name cache
\* exists but is not yet populated).
C32_CallDuringFirstDerivation ==
    [][(reg'.call # reg.call /\ FirstDerivationPending(reg)
            /\ reg'.call.name \in CatalogNames(reg))
        => reg'.call.message # "Tool not found"]_vars

(***************************************************************************)
(* The transport under its dispatcher: the protocol layer behind onmessage *)
(* answers every request it is handed with one send of the response that   *)
(* carries the request's id, and sends nothing for a notification.         *)
(***************************************************************************)
\* the POSTs of a client: a request, an initialize request, a notification
DispatchPosts ==
    { HttpRequest("POST", {"application/json"}, "application/json", h, b) :
        h \in 0 .. 1,
        b \in { Single(ReqToolsCall), Single(ReqPrefixedInitialize),
                Single(NotifInitialized) } }

\* ids of the requests among the messages
RECURSIVE requestIds(_)
requestIds(messages) ==
    IF messages = <<>> THEN {}
    ELSE (IF Head(messages).kind = "request" THEN {Head(messages).id} ELSE {})
         \cup requestIds(Tail(messages))

sendOf(t, message) ==
    IF t.cls = "HttpServerTransport"
    THEN send(t, message) ELSE Stateless_send(t, message)

DispatchInit ==
    /\ TransportInit
    /\ owed = {}
    /\ FacadeIdle /\ ToolsIdle /\ SchemaIdle
    /\ MiddlewareIdle /\ FilterIdle /\ SocketIdle /\ RegistryIdle
    /\ ClientIdle

\* a POST arrives; the dispatcher takes note of the requests delivered
DispatchPost(request) ==
    /\ LET r == handleMessageOf(tr, request, "async") IN
        /\ WithinBounds(r.t)
        /\ tr' = Settle(r.t)
        /\ last' = Call("handleMessage", request, r.resp,
                        SubSeq(r.t.delivered, Len(tr.delivered) + 1,
                               Len(r.t.delivered)), NoMsg)
        /\ owed' = owed \cup requestIds(SubSeq(r.t.delivered,
                                               Len(tr.delivered) + 1,
                                               Len(r.t.delivered)))
    /\ UNCHANGED DispatchFrame

\* a request handler finishes: the dispatcher sends its response
DispatchAnswer(id) ==
    /\ id \in owed
    /\ WithinBounds(sendOf(tr, Response(id)))
    /\ tr' = Settle(sendOf(tr, Response(id)))
    /\ last' = Call("send", NoRequest, NoResponse, <<>>, Response(id))
    /\ owed' = owed \ {id}
    /\ UNCHANGED DispatchFrame

DispatchNext ==
    \/ \E request \in DispatchPosts : DispatchPost(request)
    \/ \E id \in Ids : DispatchAnswer(id)

\* every request handler finishes
DispatchFairness == \A id \in Ids : WF_vars(DispatchAnswer(id))

SpecDispatch == DispatchInit /\ [][DispatchNext]_vars /\ DispatchFairness

\* the POST just handled carried only notifications and its response is
\* the promise of exchange e, still unresolved
NotificationPostWaits(e) ==
    /\ last.op = "handleMessage"
    /\ last.delivered = <<NotifInitialized>>
    /\ last.resp = Pending
    /\ Len(tr.exchanges) = e
    /\ tr.exchanges[e].pc = "waiting"

ExchangeReturned(e) ==
    e \in DOMAIN tr.exchanges /\ tr.exchanges[e].pc = "returned"

\* C33: in immediate-JSON mode a POST that carries only notifications
\* completes: the promise handleMessage returned for it is eventually
\* resolved with an HTTP response.
C33_NotificationPostCompletes ==
    \A e \in 1 .. MaxCreated :
        NotificationPostWaits(e) ~> ExchangeReturned(e)

\* C34: when two properties reference the same acyclic definition, both
\* occurrences are expanded to the definition's body: the placeholder
\* stands only for a $ref whose key is on the current resolution path.
C34_SiblingRefsBothExpanded ==
    sch.done =>
        \A k \in Keys :
            (sch.schema = Obj(<< Ref(k), Ref(k) >>)
                /\ sch.definitions[k] = Str) =>
                    \A i \in 1 .. 2 :
                        sch.result.sub[i] = Node("expanded", k, << Str >>)

\* the $ref keys a schema holds, at any depth
RECURSIVE refsOf(_)
refsOf(n) ==
    (IF n.kind = "ref" THEN {n.key} ELSE {})
        \cup UNION { refsOf(n.sub[i]) : i \in DOMAIN n.sub }

\* C39: when every referenced key exists in the definitions map, the schema
\* dereferenceSchema returns holds no $ref at any depth.
C39_NoRefLeft ==
    (sch.done /\ refsOf(sch.schema) \subseteq DOMAIN sch.definitions) =>
        refsOf(sch.result) = {}

\* C35: the name cache only grows: whatever schema source a derivation runs
\* over, every binding the cache holds before it is still there afterwards,
\* with the same internal id.
C35_CacheOnlyGrows ==
    \A m \in Schemas :
        LET before == reg.toolNames.map
            after == getTools(reg.file, before, m.funcs, reg.options).toolNames
        IN \A name \in DOMAIN before :
                name \in DOMAIN after /\ after[name] = before[name]

\* after a change of the schema source and a second derivation the cache
\* holds more names than the tools/list just answered
C35_Witness ==
    /\ reg.listed.done
    /\ reg.meta = Meta(<< FB >>)
    /\ Cardinality(reg.listed.names) = 1
    /\ Cardinality(DOMAIN reg.toolNames.map) >= 2
    /\ \E name \in DOMAIN reg.toolNames.map : name \notin reg.listed.names

\* the functions of the schema sources
AllFuncs == UNION { { m.funcs[i] : i \in DOMAIN m.funcs } : m \in Schemas }

\* the operations the server's options remove, and the ones flagged
\* internal
Removed(r) ==
    { g.resolveType :
        g \in { f \in AllFuncs :
                  /\ f.ref = "definition"
                  /\ \/ r.options.include.defined
                           /\ f.resolveType \notin r.options.include.value
                     \/ r.options.exclude.defined
                           /\ f.resolveType \in r.options.exclude.value
                     \/ f.internal } }

\* C36: an operation removed by the include/exclude options, or flagged
\* internal, is never entered in the name cache, and no tools/call makes
\* the server call deco.invoke with its resolve type.
C36_RemovedNeverInvoked ==
    /\ \A name \in DOMAIN reg.toolNames.map :
            reg.toolNames.map[name] \notin Removed(reg)
    /\ reg.call.invoked.defined => reg.call.invoked.value \notin Removed(reg)

\* the statuses the transport rejects a request with
Rejections == {400, 404, 405, 406, 409, 415}

\* C37: a request that the HTTP transport rejects with a 4xx response
\* leaves the transport as it was (initialized, sessionId, stream-active
\* flag, stream controller, pending resolver and all the rest) and
\* delivers nothing to onmessage.
C37_RejectionLeavesState ==
    tr.cls = "HttpServerTransport" =>
        \A request \in HttpRequests \cup InitializeBatches,
           cb \in Callbacks :
            LET r == handleMessage(tr, request, cb) IN
            r.resp.status \in Rejections => r.t = tr

\* a second GET has just been refused while the session's stream is open
C37_Witness ==
    /\ tr.cls = "HttpServerTransport"
    /\ last.op = "handleMessage"
    /\ last.request.method = "GET"
    /\ last.resp.status = 409
    /\ tr.sseStreamActive
    /\ tr.sseController # undefined
    /\ tr.initialized

(***************************************************************************)
(* The client transport (StatelessClientTransport of                       *)
(* src/mcp/stateless-client.ts, HttpClientTransport of part_008): one      *)
(* send call, its fetches, and the re-authorization that a 401 response    *)
(* starts.  send awaits _authThenSend, which awaits send again, so the     *)
(* calls nest; an error thrown in the innermost call passes through the    *)
(* catch block of every enclosing send.                                    *)
(***************************************************************************)
MaxFetches == 4     \* fetches of one send call that are followed
MaxSends == 2       \* send calls that are followed

Statuses == {200, 401, 500}
ContentKinds == {"application/json", "text/event-stream"}
AuthResults == {"AUTHORIZED", "REDIRECT"}

StatelessClientTransport(authProvider) ==
    [ _authProvider |-> authProvider,
      pc |-> "idle",            \* idle, fetching or authorizing
      sends |-> 0,              \* send calls made by the protocol layer
      depth |-> 0,              \* send calls on the stack
      fetches |-> 0,            \* fetches made by the current outer call
      auths |-> 0,              \* auth() runs of the current outer call
      outcome |-> "none",       \* how the last outer call ended
      onerrorCalls |-> 0,
      onmessageCalls |-> 0 ]

\* send up to `await fetch(this._url, init)`
Client_send(c) ==
    [c EXCEPT !.pc = "fetching", !.depth = @ + 1, !.fetches = @ + 1]

\* an error leaves the innermost send: every send on the stack runs its
\* catch block (onerror, rethrow)
Client_throw(c) ==
    [c EXCEPT !.pc = "idle", !.outcome = "threw",
              !.onerrorCalls = @ + c.depth, !.depth = 0]

Client_return(c) ==
    [c EXCEPT !.pc = "idle", !.outcome = "returned", !.depth = 0]

\* _authThenSend up to `await auth(...)`
_authThenSend(c) ==
    IF ~c._authProvider THEN Client_throw(c)
    ELSE [c EXCEPT !.pc = "authorizing", !.auths = @ + 1]

\* _authThenSend after auth() has resolved
authThenSend_resumed(c, result) ==
    IF result # "AUTHORIZED" THEN Client_throw(c) ELSE Client_send(c)

\* send after fetch has resolved with a response
send_resumed(c, status, contentType) ==
    IF status # 200
    THEN IF status = 401 /\ c._authProvider
         THEN _authThenSend(c)
         ELSE Client_throw(c)
    ELSE IF contentType = "text/event-stream"
    THEN Client_return(c)
    ELSE Client_return([c EXCEPT !.onmessageCalls = @ + 1])

ClientInit ==
    /\ cl \in { StatelessClientTransport(a) : a \in BOOLEAN }
    /\ TransportIdle /\ FacadeIdle /\ ToolsIdle /\ SchemaIdle
    /\ MiddlewareIdle /\ FilterIdle /\ SocketIdle /\ RegistryIdle
    /\ DispatchIdle

\* the protocol layer calls send(message)
ClientSend ==
    /\ cl.pc = "idle"
    /\ cl.sends < MaxSends
    /\ cl' = Client_send([cl EXCEPT !.sends = @ + 1, !.fetches = 0,
                                    !.auths = 0, !.outcome = "none"])
    /\ UNCHANGED ClientFrame

\* the server answers the POST
ClientResponse(status, contentType) ==
    /\ cl.pc = "fetching"
    /\ cl' = send_resumed(cl, status, contentType)
    /\ UNCHANGED ClientFrame

\* the authorization flow ends
ClientAuthorized(result) ==
    /\ cl.pc = "authorizing"
    /\ result = "AUTHORIZED" => cl.fetches < MaxFetches
    /\ cl' = authThenSend_resumed(cl, result)
    /\ UNCHANGED ClientFrame

ClientNext ==
    \/ ClientSend
    \/ \E status \in Statuses, contentType \in ContentKinds :
            ClientResponse(status, contentType)
    \/ \E result \in AuthResults : ClientAuthorized(result)

SpecClient == ClientInit /\ [][ClientNext]_vars

\* C38: one send call re-authorizes and re-sends its message at most once:
\* it makes at most two fetches and runs auth() at most once, however
\* often the server answers 401.
C38_ResendAtMostOnce == cl.fetches <= 2 /\ cl.auths <= 1

(***************************************************************************)
(* Delivery order: one HTTP transport that is posted batches and one       *)
(* WebSocket transport whose socket receives frames.                       *)
(***************************************************************************)
\* POSTs with proper headers that carry a batch
BatchPosts ==
    { HttpRequest("POST", {"application/json"}, "application/json", 1,
                  Array(b)) :
        b \in UNION { [1 .. k -> {ReqToolsCall, NotifInitialized}] :
                        k \in 1 .. MaxBatch } }

OrderInit ==
    /\ tr \in { HttpServerTransport(FALSE, j) : j \in BOOLEAN }
    /\ last = Call("new", NoRequest, NoResponse, <<>>, NoMsg)
    /\ ws = WebSocketServerTransport
    /\ FacadeIdle /\ ToolsIdle /\ SchemaIdle /\ MiddlewareIdle
    /\ FilterIdle /\ RegistryIdle /\ DispatchIdle /\ ClientIdle

OrderNext ==
    \/ \E request \in BatchPosts, cb \in Callbacks :
            HandleMessage(request, cb)
    \/ AcceptWebSocket(1)
    \/ SocketOpen(1)
    \/ \E valid \in BOOLEAN : SocketMessageEvent(1, valid)

SpecOrder == OrderInit /\ [][OrderNext]_vars

\* C40: the messages of a connection reach onmessage in the order the
\* transport received them, each exactly once: an accepted batch POST has
\* passed exactly the elements of its array, in array order, to onmessage
\* when its response is produced, and every frame that parses is passed to
\* onmessage when it arrives, after the frames that arrived before it.
C40_DeliveredInOrder ==
    [][ /\ (last' # last /\ last'.op = "handleMessage"
                /\ last'.resp.status \in {0, 200}) =>
                    last'.delivered = last'.request.body.elems
        /\ (last' # last /\ last'.op = "handleMessage"
                /\ last'.resp.status \notin {0, 200}) =>
                    last'.delivered = <<>>
        /\ ws'.arrived # ws.arrived =>
                /\ ws'.arrived = ws.arrived + 1
                /\ ws'.delivered = IF ws'.outcome = "onmessage"
                                   THEN Append(ws.delivered, ws'.arrived)
                                   ELSE ws.delivered
        /\ ws'.arrived = ws.arrived => ws'.delivered = ws.delivered ]_vars

\* a batch of two has been delivered to the HTTP transport's observer, and
\* the socket has received three frames of which the second did not parse
C40_Witness ==
    /\ last.op = "handleMessage"
    /\ last.request.body = Array(<< ReqToolsCall, NotifInitialized >>)
    /\ last.delivered = << ReqToolsCall, NotifInitialized >>
    /\ ws.arrived = 3
    /\ ws.delivered = << 1, 3 >>

====
